---- MODULE Spec2Model ----
(***************************************************************************)
(* State-machine model of the chat service's messaging core                *)
(* (src/messaging): conversations, participants, messages, reactions, the  *)
(* websocket consumer, the rate limiter and the webhook delivery task.     *)
(* Rows of a table are kept in a sequence; a row's id is its index.        *)
(***************************************************************************)
EXTENDS Integers, Sequences, FiniteSets, TLC

\* ------------------------------------------------------------------ bounds
NumUsers == 3
MaxConversations == 2
MaxGroups == 1
MaxMessages == 2
MaxReactions == 2
MaxConnections == 2
NumProcs == 2
MaxChecks == 4
MaxClock == 90
MaxWords == 2
MaxLogs == 1
MaxRuns == 2

Users == 1..NumUsers
Procs == 1..NumProcs
ConnIds == 1..MaxConnections
ConvIds == 1..MaxConversations
MessageIds == 1..MaxMessages
Emojis == {"thumbsup", "heart"}
Contents == {"", "hi"}
MessageTypes == {"text", "image"}
Titles == {"", "Team"}

VARIABLES
    conversations,  \* table Conversation: <<[ctype, title, p1, p2, created_by]>>
    participants,   \* table ConversationParticipant: <<[conv, user, role, is_active, left_at]>>
    messages,       \* table Message
    reactions,      \* table MessageReaction: <<[message, user, emoji]>>
    online,         \* table UserOnlineStatus: the users with is_online set
    connections,    \* the websocket consumers: [state, user, conv, in_group]
    typing,         \* table TypingIndicator: the <<conversation, user>> rows
    last,           \* the last call made: its name, arguments and outcome
    procs,          \* concurrent get_or_create calls: where each one stands
    trackers,       \* table RateLimitTracker: <<user, action_type, window_start>> -> count
    calls,          \* the check_limit calls made so far: <<user, action_type, window_start>> -> number
    granted,        \* the check_limit calls allowed so far: <<user, action_type, window_start>> -> number
    now,            \* the clock, timezone.now(), in seconds
    endpoint,       \* the WebhookEndpoint row: [total_sent, total_failed]
    deliveries,     \* table WebhookDelivery
    job,            \* the webhook task of the queue (deliver_webhook or send_webhook)
    last_message_at, \* column Conversation.last_message_at: << >> while it holds the
                     \* time of the row's creation (auto_now_add), <<time>> once written
    capacity,       \* column Conversation.max_participants
    events,         \* the events that the last call sent to channel layer groups (group_send)
    queue,          \* the background jobs enqueued with delay()
    cache,          \* the cache: key -> cached response
    modlog,         \* table ContentModerationLog
    moderated,      \* the last ContentModerator.moderate_text call and its result
    task_results    \* the results returned by the runs of process_message_encryption

dbVars == <<conversations, participants, messages, reactions>>
wsVars == <<online, connections, typing>>
rateVars == <<trackers, calls, granted, now>>
hookVars == <<endpoint, deliveries, job>>
sideVars == <<last_message_at, capacity, queue, cache>>
modVars == <<modlog, moderated, task_results>>
vars == <<conversations, participants, messages, reactions, online, connections, typing,
          last, procs, trackers, calls, granted, now, endpoint, deliveries, job,
          last_message_at, capacity, events, queue, cache, modlog, moderated,
          task_results>>

NoCall == [op |-> "none", user |-> 0, other |-> 0, conv |-> 0, msg |-> 0,
           ids |-> {}, emoji |-> "", action |-> "", created |-> FALSE,
           mtype |-> "", content |-> "", served |-> [convs |-> {}, msgs |-> {}],
           body |-> << >>, result |-> "none"]

NoConnection == [state |-> "closed", user |-> 0, conv |-> 0, in_group |-> FALSE]

NoJob == [task |-> "none", state |-> "none", retries |-> 0, countdowns |-> << >>,
          responses |-> << >>]

NoModeration ==
    [op |-> "none", msg |-> 0, content |-> << >>, user |-> 0,
     result |-> [is_appropriate |-> TRUE, confidence_score |-> 0, issues_found |-> {},
                 action_required |-> "none", filtered_content |-> << >>]]

\* Conversation.max_participants: the column's default
max_participants == 256

IdleProc == [pc |-> "idle", u1 |-> 0, u2 |-> 0, conv |-> 0, created |-> FALSE,
             stamp |-> 0, copies |-> << >>, content |-> ""]

Init ==
    /\ conversations = << >>
    /\ participants = << >>
    /\ messages = << >>
    /\ reactions = << >>
    /\ online = {}
    /\ connections = [k \in ConnIds |-> NoConnection]
    /\ typing = {}
    /\ last = NoCall
    /\ procs = [p \in Procs |-> IdleProc]
    /\ trackers = << >>
    /\ calls = << >>
    /\ granted = << >>
    /\ now = 0
    /\ endpoint = [total_sent |-> 0, total_failed |-> 0]
    /\ deliveries = << >>
    /\ job = NoJob
    /\ last_message_at = [c \in ConvIds |-> << >>]
    /\ capacity = [c \in ConvIds |-> max_participants]
    /\ events = {}
    /\ queue = {}
    /\ cache = << >>
    /\ modlog = << >>
    /\ moderated = NoModeration
    /\ task_results = << >>

\* ------------------------------------------------------------ conversations

\* Conversation.clean for a direct row: both participants set, not the same
\* user, and the lower id stored first.
ConversationCleanDirect(row) ==
    IF row.p1 = 0 \/ row.p2 = 0 THEN [raised |-> TRUE, row |-> row]
    ELSE IF row.p1 = row.p2 THEN [raised |-> TRUE, row |-> row]
    ELSE IF row.p1 > row.p2
         THEN [raised |-> FALSE, row |-> [row EXCEPT !.p1 = row.p2, !.p2 = row.p1]]
         ELSE [raised |-> FALSE, row |-> row]

\* The rows that get(conversation_type=DIRECT, participant1=a, participant2=b)
\* matches.
DirectMatches(convs, a, b) ==
    {c \in DOMAIN convs :
        convs[c].ctype = "direct" /\ convs[c].p1 = a /\ convs[c].p2 = b}

DirectRow(a, b) ==
    [ctype |-> "direct", title |-> "", p1 |-> a, p2 |-> b, created_by |-> 0]

\* The pair without the swap.
OrderedPair_NoSwap(user1, user2) == <<user1, user2>>

\* The swap of get_or_create_direct_conversation.
OrderedPair(user1, user2) ==
    IF user1 > user2 THEN <<user2, user1>> ELSE <<user1, user2>>

\* The insert of a direct row: Conversation.save runs clean, then the INSERT.
\* The table has no unique constraint on the pair (Meta declares indexes only).
InsertDirect(convs, a, b) ==
    LET cleaned == ConversationCleanDirect(DirectRow(a, b))
    IN IF cleaned.raised
       THEN [raised |-> "ValidationError", conversations |-> convs, id |-> 0]
       ELSE [raised |-> "no", conversations |-> Append(convs, cleaned.row),
             id |-> Len(convs) + 1]

\* get_or_create_direct_conversation returning nothing, instead of raising, for
\* a user paired with themself.
get_or_create_direct_conversation_NoRaise(convs, user1, user2) ==
    IF user1 = user2
    THEN [raised |-> "no", conversations |-> convs, id |-> 0, created |-> FALSE]
    ELSE LET pr == OrderedPair(user1, user2)
             found == DirectMatches(convs, pr[1], pr[2])
         IN IF found # {}
            THEN [raised |-> "no", conversations |-> convs,
                  id |-> CHOOSE c \in found : TRUE, created |-> FALSE]
            ELSE LET ins == InsertDirect(convs, pr[1], pr[2])
                 IN [raised |-> ins.raised, conversations |-> ins.conversations,
                     id |-> ins.id, created |-> ins.raised = "no"]

\* Conversation.get_or_create_direct_conversation run without interleaving:
\* the self check, the swap, then QuerySet.get_or_create (get; on DoesNotExist
\* create; get raises MultipleObjectsReturned on more than one match).
get_or_create_direct_conversation(convs, user1, user2) ==
    IF user1 = user2
    THEN [raised |-> "ValidationError", conversations |-> convs,
          id |-> 0, created |-> FALSE]
    ELSE LET pr == OrderedPair(user1, user2)
             found == DirectMatches(convs, pr[1], pr[2])
         IN IF Cardinality(found) > 1
            THEN [raised |-> "MultipleObjectsReturned", conversations |-> convs,
                  id |-> 0, created |-> FALSE]
            ELSE IF found # {}
            THEN [raised |-> "no", conversations |-> convs,
                  id |-> CHOOSE c \in found : TRUE, created |-> FALSE]
            ELSE LET ins == InsertDirect(convs, pr[1], pr[2])
                 IN [raised |-> ins.raised, conversations |-> ins.conversations,
                     id |-> ins.id, created |-> ins.raised = "no"]

\* A call of Conversation.get_or_create_direct_conversation(user1, user2).
GetOrCreateDirect(user1, user2) ==
    LET r == get_or_create_direct_conversation(conversations, user1, user2)
    IN /\ Len(r.conversations) <= MaxConversations
       /\ conversations' = r.conversations
       /\ last' = [NoCall EXCEPT !.op = "get_or_create_direct",
                     !.user = user1, !.other = user2, !.conv = r.id,
                     !.created = r.created,
                     !.result = IF r.raised = "no" THEN "ok" ELSE r.raised]
       /\ events' = {}
       /\ UNCHANGED <<participants, messages, reactions, wsVars, procs, rateVars, hookVars, sideVars, modVars>>

\* ---------------------------------------------- concurrent get_or_create
\* Two requests run get_or_create_direct_conversation at once: each does its
\* SELECT (RaceGet) and, having found nothing, its INSERT (RaceCreate) in a
\* later step.
RaceGet(p, user1, user2) ==
    /\ procs[p].pc = "idle"
    /\ Len(conversations) < MaxConversations
    /\ IF user1 = user2
       THEN procs' = [procs EXCEPT ![p] = [IdleProc EXCEPT !.pc = "raised",
                                             !.u1 = user1, !.u2 = user2]]
       ELSE LET pr == OrderedPair(user1, user2)
                found == DirectMatches(conversations, pr[1], pr[2])
            IN procs' = [procs EXCEPT ![p] =
                 IF Cardinality(found) > 1
                 THEN [IdleProc EXCEPT !.pc = "raised", !.u1 = pr[1], !.u2 = pr[2]]
                 ELSE IF found # {}
                 THEN [IdleProc EXCEPT !.pc = "returned", !.u1 = pr[1], !.u2 = pr[2],
                                       !.conv = CHOOSE c \in found : TRUE]
                 ELSE [IdleProc EXCEPT !.pc = "creating", !.u1 = pr[1], !.u2 = pr[2]]]
    /\ events' = {}
    /\ UNCHANGED <<dbVars, wsVars, last, rateVars, hookVars, sideVars, modVars>>

RaceCreate(p) ==
    /\ procs[p].pc = "creating"
    /\ LET ins == InsertDirect(conversations, procs[p].u1, procs[p].u2)
       IN /\ conversations' = ins.conversations
          /\ procs' = [procs EXCEPT ![p].pc = "returned", ![p].conv = ins.id,
                                    ![p].created = TRUE]
    /\ events' = {}
    /\ UNCHANGED <<participants, messages, reactions, wsVars, last, rateVars, hookVars, sideVars, modVars>>

\* The request ends; the worker takes the next one.
RaceReturn(p) ==
    /\ procs[p].pc \in {"returned", "raised"}
    /\ procs' = [procs EXCEPT ![p] = IdleProc]
    /\ events' = {}
    /\ UNCHANGED <<dbVars, wsVars, last, rateVars, hookVars, sideVars, modVars>>

\* ------------------------------------------------------------ participants

\* The participant rows of conversation c for user (unique_together allows one).
ParticipantRows(parts, c, user) ==
    {i \in DOMAIN parts : parts[i].conv = c /\ parts[i].user = user}

\* Conversation.is_participant
is_participant(c, user) ==
    IF conversations[c].ctype = "direct"
    THEN user \in {conversations[c].p1, conversations[c].p2}
    ELSE \E i \in ParticipantRows(participants, c, user) : participants[i].is_active

\* Conversation.get_participant_count
get_participant_count(c) ==
    IF conversations[c].ctype = "direct"
    THEN 2
    ELSE Cardinality({i \in DOMAIN participants :
                        participants[i].conv = c /\ participants[i].is_active})

\* Conversation.get_user_conversations: the direct conversations of the user and
\* the group conversations that hold a participant row of the user (the filter
\* participants__user=user does not look at the row's is_active).
get_user_conversations(user) ==
    {c \in DOMAIN conversations :
        IF conversations[c].ctype = "direct"
        THEN user \in {conversations[c].p1, conversations[c].p2}
        ELSE ParticipantRows(participants, c, user) # {}}

\* ConversationParticipant.objects.create without the unique constraint
InsertParticipant_NoUnique(parts, c, user, role) ==
    [raised |-> FALSE,
     participants |-> Append(parts, [conv |-> c, user |-> user, role |-> role,
                                     is_active |-> TRUE, left_at |-> << >>])]

\* ConversationParticipant.objects.create: the INSERT fails on the unique
\* (conversation, user) constraint.
InsertParticipant(parts, c, user, role) ==
    IF ParticipantRows(parts, c, user) # {}
    THEN [raised |-> TRUE, participants |-> parts]
    ELSE [raised |-> FALSE,
          participants |-> Append(parts, [conv |-> c, user |-> user, role |-> role,
                                          is_active |-> TRUE, left_at |-> << >>])]

\* The loop of create_group_conversation over the other participants, in the
\* order of the list: each create commits by itself, the first one that raises
\* ends the loop.
RECURSIVE InsertMembers(_, _, _)
InsertMembers(parts, c, users) ==
    IF users = << >> THEN [raised |-> FALSE, participants |-> parts]
    ELSE LET r == InsertParticipant(parts, c, Head(users), "member")
         IN IF r.raised THEN r ELSE InsertMembers(r.participants, c, Tail(users))

\* Conversation.clean for a group row: a title and a creator.
ConversationCleanGroup(row) == row.title = "" \/ row.created_by = 0

\* Conversation.create_group_conversation(creator, title, participants)
create_group_conversation(convs, parts, creator, title, users) ==
    LET row == [ctype |-> "group", title |-> title, p1 |-> 0, p2 |-> 0,
                created_by |-> creator]
        c == Len(convs) + 1
    IN IF ConversationCleanGroup(row)
       THEN [raised |-> "ValidationError", conversations |-> convs,
             participants |-> parts, id |-> 0]
       ELSE LET admin == InsertParticipant(parts, c, creator, "admin")
                members == InsertMembers(admin.participants, c, users)
            IN [raised |-> IF members.raised THEN "IntegrityError" ELSE "no",
                conversations |-> Append(convs, row),
                participants |-> members.participants, id |-> c]

\* Conversation.get_participants
get_participants(c) ==
    IF conversations[c].ctype = "direct"
    THEN {conversations[c].p1, conversations[c].p2}
    ELSE {participants[i].user : i \in {j \in DOMAIN participants :
                                    participants[j].conv = c /\ participants[j].is_active}}

\* ------------------------------------------------- cache, events and jobs

\* The limits whose message-page keys invalidate_conversation_cache deletes.
CacheLimits == {20, 50, 100}

\* cache.delete of the keys
Drop(ch, keys) == [k \in DOMAIN ch \ keys |-> ch[k]]

\* cache.set(key, value, ttl)
Put(ch, key, value) ==
    [k \in DOMAIN ch \cup {key} |-> IF k = key THEN value ELSE ch[k]]

\* utils.invalidate_conversation_cache: conversation_messages_{c}_{limit}
invalidate_conversation_cache(ch, c) ==
    Drop(ch, {<<"conversation_messages", c, l>> : l \in CacheLimits})

\* utils.invalidate_user_cache, for each user of the set: user_conversations_{user}
invalidate_user_cache(ch, users) ==
    Drop(ch, {<<"user_conversations", u, 0>> : u \in users})

\* An event handed to channel_layer.group_send for the group chat_{group}
Event(type, group, m, user) ==
    [type |-> type, group |-> group, msg |-> m, user |-> user]

\* A task call put on the queue by delay(): the task, the message and the
\* content passed (for send_webhook, the event of the payload)
Job(task, m, content) == [task |-> task, msg |-> m, content |-> content]

\* -------------------------------------------------------- group requests

\* The users of a set as a list in id order (User.objects.filter(id__in=...)).
RECURSIVE InIdOrder(_)
InIdOrder(S) ==
    IF S = {} THEN << >>
    ELSE LET u == CHOOSE x \in S : \A y \in S : x <= y
         IN <<u>> \o InIdOrder(S \ {u})

\* ConversationViewSet.group: POST conversations/group/
RestGroup(user, title, ids) ==
    IF title = ""
    THEN /\ last' = [NoCall EXCEPT !.op = "rest_group", !.user = user,
                                   !.result = "400"]
         /\ events' = {}
         /\ UNCHANGED <<dbVars, wsVars, procs, rateVars, hookVars, sideVars, modVars>>
    ELSE LET r == create_group_conversation(conversations, participants, user,
                                            title, InIdOrder(ids))
         IN /\ Cardinality({c \in DOMAIN conversations :
                              conversations[c].ctype = "group"}) < MaxGroups
            /\ conversations' = r.conversations
            /\ participants' = r.participants
            /\ cache' = IF r.raised = "no"
                        THEN invalidate_user_cache(cache, ids \cup {user})
                        ELSE cache
            /\ last' = [NoCall EXCEPT !.op = "rest_group", !.user = user,
                          !.conv = r.id, !.ids = ids,
                          !.result = IF r.raised = "no" THEN "201" ELSE "500"]
            /\ events' = {}
            /\ UNCHANGED <<messages, reactions, wsVars, procs, rateVars, hookVars, last_message_at, capacity, queue, modVars>>

\* get_or_create of add_participant, were it a plain create without the unique
\* constraint
AddOrReactivate_Insert(parts, c, user) ==
    InsertParticipant_NoUnique(parts, c, user, "member").participants

\* The end of Conversation.add_participant: get_or_create of the row, and the
\* reactivation of a row that was there and is not active.
AddOrReactivate(parts, c, user) ==
    LET rows == ParticipantRows(parts, c, user)
    IN IF rows = {}
       THEN InsertParticipant(parts, c, user, "member").participants
       ELSE LET i == CHOOSE x \in rows : TRUE
            IN IF parts[i].is_active THEN parts
               ELSE [parts EXCEPT ![i].is_active = TRUE]

\* Conversation.add_participant
add_participant(parts, c, user) ==
    IF conversations[c].ctype = "direct" THEN [raised |-> "ValueError", participants |-> parts]
    ELSE IF get_participant_count(c) >= capacity[c]
    THEN [raised |-> "ValidationError", participants |-> parts]
    ELSE [raised |-> "no", participants |-> AddOrReactivate(parts, c, user)]

\* The limit that tests.test_conversation_participant_limits sets.
TestMax == 2

\* conversation.max_participants = n; conversation.save(): the limit of a group
\* is lowered to n, which its roster fits.
SetMaxParticipants(c, n) ==
    /\ c \in DOMAIN conversations
    /\ conversations[c].ctype = "group"
    /\ get_participant_count(c) <= n
    /\ capacity[c] # n
    /\ capacity' = [capacity EXCEPT ![c] = n]
    /\ last' = [NoCall EXCEPT !.op = "set_max_participants", !.conv = c,
                              !.result = "ok"]
    /\ events' = {}
    /\ UNCHANGED <<dbVars, wsVars, procs, rateVars, hookVars, last_message_at, queue, cache, modVars>>

\* Conversation.add_participant(user) of worker p, up to its check of the
\* limit: the count is read and compared, the write comes in AddWrite.
AddCheck(p, c, user) ==
    /\ procs[p].pc = "idle"
    /\ c \in DOMAIN conversations
    /\ conversations[c].ctype = "group"
    /\ procs' = [procs EXCEPT ![p] =
                   [IdleProc EXCEPT !.u1 = user, !.conv = c,
                      !.pc = IF get_participant_count(c) >= capacity[c]
                             THEN "raised" ELSE "adding"]]
    /\ events' = {}
    /\ UNCHANGED <<dbVars, wsVars, last, rateVars, hookVars, sideVars, modVars>>

\* The rest of add_participant of worker p: get_or_create and reactivation.
AddWrite(p) ==
    /\ procs[p].pc = "adding"
    /\ participants' = AddOrReactivate(participants, procs[p].conv, procs[p].u1)
    /\ procs' = [procs EXCEPT ![p].pc = "returned"]
    /\ last' = [NoCall EXCEPT !.op = "add_participant", !.other = procs[p].u1,
                              !.conv = procs[p].conv, !.result = "ok"]
    /\ events' = {}
    /\ UNCHANGED <<conversations, messages, reactions, wsVars, rateVars, hookVars, sideVars, modVars>>

\* Conversation.remove_participant, were it to delete the row
remove_participant_Delete(parts, c, user) ==
    IF conversations[c].ctype = "direct" THEN [raised |-> "ValueError", participants |-> parts]
    ELSE IF ParticipantRows(parts, c, user) = {}
    THEN [raised |-> "ValueError", participants |-> parts]
    ELSE [raised |-> "no",
          participants |-> SelectSeq(parts, LAMBDA row : ~(row.conv = c /\ row.user = user))]

\* Conversation.remove_participant: the row of the user is kept, with is_active
\* unset and left_at set
remove_participant(parts, c, user) ==
    IF conversations[c].ctype = "direct" THEN [raised |-> "ValueError", participants |-> parts]
    ELSE LET rows == ParticipantRows(parts, c, user)
         IN IF rows = {}
            THEN [raised |-> "ValueError", participants |-> parts]
            ELSE LET i == CHOOSE x \in rows : TRUE
                 IN [raised |-> "no",
                     participants |-> [parts EXCEPT ![i].is_active = FALSE,
                                                    ![i].left_at = <<now>>]]

\* ConversationViewSet.add_participant: POST conversations/{c}/add_participant/
\* get_object looks the conversation up among get_user_conversations(request.user).
RestAddParticipant(requester, c, user) ==
    /\ c \in DOMAIN conversations
    /\ LET found == c \in get_user_conversations(requester)
           r == add_participant(participants, c, user)
       IN /\ participants' = IF found THEN r.participants ELSE participants
          /\ cache' = IF found /\ r.raised = "no"
                      THEN invalidate_user_cache(cache, {user})
                      ELSE cache
          /\ last' = [NoCall EXCEPT !.op = "rest_add_participant", !.user = requester,
                        !.other = user, !.conv = c,
                        !.result = IF ~found THEN "404"
                                   ELSE IF r.raised = "no" THEN "200" ELSE "400"]
    /\ events' = {}
    /\ UNCHANGED <<conversations, messages, reactions, wsVars, procs, rateVars, hookVars, last_message_at, capacity, queue, modVars>>

\* ConversationViewSet.remove_participant: POST conversations/{c}/remove_participant/
RestRemoveParticipant(requester, c, user) ==
    /\ c \in DOMAIN conversations
    /\ LET found == c \in get_user_conversations(requester)
           r == remove_participant(participants, c, user)
       IN /\ participants' = IF found THEN r.participants ELSE participants
          /\ cache' = IF found /\ r.raised = "no"
                      THEN invalidate_user_cache(cache, {user})
                      ELSE cache
          /\ last' = [NoCall EXCEPT !.op = "rest_remove_participant", !.user = requester,
                        !.other = user, !.conv = c,
                        !.result = IF ~found THEN "404"
                                   ELSE IF r.raised = "no" THEN "200" ELSE "400"]
    /\ events' = {}
    /\ UNCHANGED <<conversations, messages, reactions, wsVars, procs, rateVars, hookVars, last_message_at, capacity, queue, modVars>>

\* ---------------------------------------------------------------- messages

\* Conversation.update_last_message_time, which Message.save calls after the
\* row is written
update_last_message_time(lma, c) == [lma EXCEPT ![c] = <<now>>]

\* Message.clean without its check of a text's content
MessageCleanRaises_NoContentCheck(row) ==
    \/ ~is_participant(row.conv, row.sender)
    \/ (row.mtype = "image" /\ ~row.has_file)

\* Message.clean: the sender is a participant, a text has content, an image
\* has a file. It raises when this is TRUE.
MessageCleanRaises(row) ==
    \/ ~is_participant(row.conv, row.sender)
    \/ (row.mtype = "text" /\ row.content = "")
    \/ (row.mtype = "image" /\ ~row.has_file)

NewMessage(c, sender, mtype, content, has_file) ==
    [conv |-> c, sender |-> sender, mtype |-> mtype, content |-> content,
     has_file |-> has_file, status |-> "sent", created_at |-> now,
     delivered_at |-> << >>, read_at |-> << >>,
     is_edited |-> FALSE, edited_at |-> << >>,
     is_deleted |-> FALSE, deleted_at |-> << >>, reply_to |-> 0]

\* Message.objects.create: Message.save runs clean, then the INSERT.
MessageCreate(msgs, row) ==
    IF MessageCleanRaises(row)
    THEN [raised |-> TRUE, messages |-> msgs, id |-> 0]
    ELSE [raised |-> FALSE, messages |-> Append(msgs, row), id |-> Len(msgs) + 1]

\* Message.save(update_fields=fields) of the loaded instance inst of row m:
\* clean runs on every save, then the UPDATE writes the named fields.
MessageSave(msgs, m, inst, fields) ==
    IF MessageCleanRaises(inst)
    THEN [raised |-> TRUE, messages |-> msgs]
    ELSE [raised |-> FALSE,
          messages |-> [msgs EXCEPT ![m] =
                          [f \in DOMAIN inst |->
                             IF f \in fields THEN inst[f] ELSE msgs[m][f]]]]

\* Message.save of worker p for a new text of the user in conversation c, up to
\* the first line of update_last_message_time: clean, the INSERT, and
\* timezone.now() read into the conversation instance.
SaveBegin(p, user, c) ==
    /\ procs[p].pc = "idle"
    /\ c \in DOMAIN conversations
    /\ Len(messages) < MaxMessages
    /\ LET r == MessageCreate(messages, NewMessage(c, user, "text", "hi", FALSE))
       IN /\ messages' = r.messages
          /\ procs' = [procs EXCEPT ![p] =
                         [IdleProc EXCEPT !.u1 = user, !.conv = c, !.stamp = now,
                            !.pc = IF r.raised THEN "raised" ELSE "stamped"]]
    /\ events' = {}
    /\ UNCHANGED <<conversations, participants, reactions, wsVars, last, rateVars, hookVars, sideVars, modVars>>

\* The second line of update_last_message_time for worker p:
\* save(update_fields=['last_message_at']) writes the time that was read.
SaveEnd(p) ==
    /\ procs[p].pc = "stamped"
    /\ last_message_at' = [last_message_at EXCEPT ![procs[p].conv] = <<procs[p].stamp>>]
    /\ procs' = [procs EXCEPT ![p].pc = "returned"]
    /\ last' = [NoCall EXCEPT !.op = "update_last_message_time", !.user = procs[p].u1,
                              !.conv = procs[p].conv, !.result = "ok"]
    /\ events' = {}
    /\ UNCHANGED <<dbVars, wsVars, rateVars, hookVars, capacity, queue, cache, modVars>>

\* Message.mark_as_delivered on the row as loaded
mark_as_delivered(msgs, m) ==
    IF msgs[m].status = "sent"
    THEN MessageSave(msgs, m,
                     [msgs[m] EXCEPT !.status = "delivered", !.delivered_at = <<now>>],
                     {"status", "delivered_at"})
    ELSE [raised |-> FALSE, messages |-> msgs]

\* Message.mark_as_read on the row as loaded
mark_as_read(msgs, m) ==
    IF msgs[m].status \in {"sent", "delivered"}
    THEN MessageSave(msgs, m,
                     [msgs[m] EXCEPT !.status = "read", !.read_at = <<now>>],
                     {"status", "read_at"})
    ELSE [raised |-> FALSE, messages |-> msgs]

\* A call of Message.mark_as_delivered() on message m.
MarkAsDelivered(m) ==
    /\ m \in DOMAIN messages
    /\ LET r == mark_as_delivered(messages, m)
       IN /\ messages' = r.messages
          /\ last_message_at' = IF r.messages # messages
                                THEN update_last_message_time(last_message_at,
                                                              messages[m].conv)
                                ELSE last_message_at
          /\ last' = [NoCall EXCEPT !.op = "mark_as_delivered", !.msg = m,
                        !.conv = messages[m].conv,
                        !.result = IF r.raised THEN "ValidationError" ELSE "ok"]
    /\ events' = {}
    /\ UNCHANGED <<conversations, participants, reactions, wsVars, procs, rateVars, hookVars, capacity, queue, cache, modVars>>

\* A call of Message.mark_as_read() on message m.
MarkAsRead(m) ==
    /\ m \in DOMAIN messages
    /\ LET r == mark_as_read(messages, m)
       IN /\ messages' = r.messages
          /\ last_message_at' = IF r.messages # messages
                                THEN update_last_message_time(last_message_at,
                                                              messages[m].conv)
                                ELSE last_message_at
          /\ last' = [NoCall EXCEPT !.op = "mark_as_read", !.msg = m,
                        !.conv = messages[m].conv,
                        !.result = IF r.raised THEN "ValidationError" ELSE "ok"]
    /\ events' = {}
    /\ UNCHANGED <<conversations, participants, reactions, wsVars, procs, rateVars, hookVars, capacity, queue, cache, modVars>>

\* SendMessageSerializer.validate: what it rejects.
SendSerializerRejects(mtype, content, has_file) ==
    \/ (mtype = "text" /\ content = "")
    \/ (mtype = "image" /\ ~has_file)

\* MessageSerializer.get_reply_to_preview of message m: nothing (<< >>) without
\* a reply_to, else the id and the content of the message replied to. The
\* contents here are shorter than the 50 characters that the preview keeps.
get_reply_to_preview(msgs, m) ==
    IF msgs[m].reply_to = 0 THEN << >>
    ELSE <<[id |-> msgs[m].reply_to, content_preview |-> msgs[msgs[m].reply_to].content]>>

\* MessageSerializer(message).data, the body of the responses that show one
\* message: the fields that carry content
MessageData(msgs, m) ==
    <<[id |-> m, content |-> msgs[m].content, is_deleted |-> msgs[m].is_deleted,
       reply_to |-> msgs[m].reply_to, reply_to_preview |-> get_reply_to_preview(msgs, m)]>>

\* MessageViewSet.send: POST messages/send/, reply_to being 0 when the request
\* has none. Message.objects.get(id=reply_to) looks among all the messages.
RestSendReplyWithin(bound, user, c, mtype, content, has_file, reply_to) ==
    LET r == MessageCreate(messages, [NewMessage(c, user, mtype, content, has_file)
                                        EXCEPT !.reply_to = reply_to])
        result == IF SendSerializerRejects(mtype, content, has_file) THEN "400"
                  ELSE IF c \notin DOMAIN conversations THEN "404"
                  ELSE IF ~is_participant(c, user) THEN "403"
                  ELSE IF reply_to # 0 /\ reply_to \notin DOMAIN messages THEN "404"
                  ELSE IF r.raised THEN "500" ELSE "201"
    IN /\ Len(messages) < bound
       /\ messages' = IF result = "201" THEN r.messages ELSE messages
       /\ last_message_at' = IF result = "201"
                             THEN update_last_message_time(last_message_at, c)
                             ELSE last_message_at
       /\ cache' = IF result = "201"
                   THEN invalidate_user_cache(invalidate_conversation_cache(cache, c),
                                              get_participants(c))
                   ELSE cache
       /\ queue' = IF result = "201"
                   THEN queue \cup (IF content # ""
                                    THEN {Job("moderate_content", r.id, content)}
                                    ELSE {})
                              \cup {Job("process_message_encryption", r.id, ""),
                                    Job("send_webhook", r.id, "message_created")}
                   ELSE queue
       /\ last' = [NoCall EXCEPT !.op = "rest_send", !.user = user, !.conv = c,
                     !.mtype = mtype, !.content = content,
                     !.msg = IF result = "201" THEN r.id ELSE 0,
                     !.body = IF result = "201" THEN MessageData(r.messages, r.id)
                              ELSE << >>,
                     !.result = result]
       /\ events' = {}
       /\ UNCHANGED <<conversations, participants, reactions, wsVars, procs, rateVars, hookVars, capacity, modVars>>

\* MessageViewSet.send for a request without reply_to
RestSendWithin(bound, user, c, mtype, content, has_file) ==
    RestSendReplyWithin(bound, user, c, mtype, content, has_file, 0)

\* MessageViewSet.send for a request with reply_to, the table holding at most
\* MaxMessages rows
RestSendReply(user, c, content, reply_to) ==
    reply_to # 0 /\ RestSendReplyWithin(MaxMessages, user, c, "text", content, FALSE, reply_to)

\* MessageViewSet.send, the table holding at most MaxMessages rows
RestSend(user, c, mtype, content, has_file) == RestSendWithin(MaxMessages, user, c, mtype, content, has_file)

\* views.create_message: POST create_message/ (no file is passed on)
CreateMessageViewWithin(bound, user, c, mtype, content) ==
    LET r == MessageCreate(messages, NewMessage(c, user, mtype, content, FALSE))
        result == IF c \notin DOMAIN conversations THEN "404"
                  ELSE IF r.raised THEN "400" ELSE "201"
    IN /\ Len(messages) < bound
       /\ messages' = IF result = "201" THEN r.messages ELSE messages
       /\ last_message_at' = IF result = "201"
                             THEN update_last_message_time(last_message_at, c)
                             ELSE last_message_at
       /\ cache' = IF result = "201"
                   THEN invalidate_user_cache(invalidate_conversation_cache(cache, c),
                                              get_participants(c))
                   ELSE cache
       /\ queue' = IF result = "201"
                   THEN queue \cup {Job("moderate_content", r.id, content),
                                    Job("process_message_encryption", r.id, ""),
                                    Job("send_webhook", r.id, "message_created")}
                   ELSE queue
       /\ last' = [NoCall EXCEPT !.op = "create_message", !.user = user, !.conv = c,
                     !.mtype = mtype, !.content = content,
                     !.msg = IF result = "201" THEN r.id ELSE 0, !.result = result]
       /\ events' = {}
       /\ UNCHANGED <<conversations, participants, reactions, wsVars, procs, rateVars, hookVars, capacity, modVars>>

\* views.create_message, the table holding at most MaxMessages rows
CreateMessageView(user, c, mtype, content) == CreateMessageViewWithin(MaxMessages, user, c, mtype, content)

\* MessageViewSet.get_object: message m looked up in get_queryset, the messages
\* of the conversation named by the query parameter, which the user must be a
\* participant of; deleted messages are filtered out.
GetObjectFinds(user, c, m) ==
    /\ c \in DOMAIN conversations
    /\ is_participant(c, user)
    /\ m \in DOMAIN messages
    /\ messages[m].conv = c
    /\ ~messages[m].is_deleted

\* MessageViewSet.mark_read: POST messages/{m}/mark_read/?conversation_id=c
RestMarkRead(user, c, m) ==
    /\ m \in DOMAIN messages
    /\ LET r == mark_as_read(messages, m)
           result == IF ~GetObjectFinds(user, c, m) THEN "404"
                     ELSE IF messages[m].sender # user
                             /\ is_participant(messages[m].conv, user)
                          THEN IF r.raised THEN "500" ELSE "200"
                          ELSE "400"
       IN /\ messages' = IF result = "200" THEN r.messages ELSE messages
          /\ last_message_at' = IF result = "200" /\ r.messages # messages
                                THEN update_last_message_time(last_message_at,
                                                              messages[m].conv)
                                ELSE last_message_at
          /\ cache' = IF result = "200"
                      THEN invalidate_conversation_cache(cache, messages[m].conv)
                      ELSE cache
          /\ last' = [NoCall EXCEPT !.op = "rest_mark_read", !.user = user,
                        !.conv = c, !.msg = m, !.result = result]
    /\ events' = {}
    /\ UNCHANGED <<conversations, participants, reactions, wsVars, procs, rateVars, hookVars, capacity, queue, modVars>>

\* MessageViewSet.bulk_mark_read: POST messages/bulk_mark_read/ with the ids.
\* One UPDATE (no save, no clean) of the rows with id in ids whose conversation is
\* among get_user_conversations(user) and whose sender is not the user.
BulkMarkRead(user, ids) ==
    /\ ids # {}
    /\ ids \subseteq DOMAIN messages
    /\ LET hit == {m \in ids : /\ messages[m].conv \in get_user_conversations(user)
                               /\ messages[m].sender # user}
       IN /\ messages' = [m \in DOMAIN messages |->
                            IF m \in hit
                            THEN [messages[m] EXCEPT !.status = "read", !.read_at = <<now>>]
                            ELSE messages[m]]
          /\ last' = [NoCall EXCEPT !.op = "bulk_mark_read", !.user = user,
                        !.ids = ids, !.result = "200"]
    /\ events' = {}
    /\ UNCHANGED <<conversations, participants, reactions, wsVars, procs, rateVars, hookVars, sideVars, modVars>>

\* The contents that an edit request carries
Edits == {"", "hi", "hello"}

\* Message.edit_content on the row as loaded: only a text is edited
edit_content(msgs, m, new_content) ==
    IF msgs[m].mtype # "text"
    THEN [raised |-> TRUE, messages |-> msgs]
    ELSE MessageSave(msgs, m,
                     [msgs[m] EXCEPT !.content = new_content, !.is_edited = TRUE,
                                     !.edited_at = <<now>>],
                     {"content", "is_edited", "edited_at"})

\* Message.soft_delete on the row as loaded
soft_delete(msgs, m) ==
    MessageSave(msgs, m,
                [msgs[m] EXCEPT !.is_deleted = TRUE, !.deleted_at = <<now>>],
                {"is_deleted", "deleted_at"})

\* MessageViewSet.edit without its check of the sender
EditRefusal_AnySender(user, m, new_content) ==
    IF messages[m].mtype # "text" THEN "400"
    ELSE IF new_content = "" THEN "400"
    ELSE "none"

\* MessageViewSet.edit: the status it refuses the request with, "none" when it
\* goes on to edit_content
EditRefusal(user, m, new_content) ==
    IF messages[m].sender # user THEN "403"
    ELSE IF messages[m].mtype # "text" THEN "400"
    ELSE IF new_content = "" THEN "400"
    ELSE "none"

\* MessageViewSet.edit: POST messages/{m}/edit/?conversation_id=c
RestEdit(user, c, m, new_content) ==
    /\ m \in DOMAIN messages
    /\ LET r == edit_content(messages, m, new_content)
           result == IF ~GetObjectFinds(user, c, m) THEN "404"
                     ELSE IF EditRefusal(user, m, new_content) # "none"
                     THEN EditRefusal(user, m, new_content)
                     ELSE IF r.raised THEN "500" ELSE "200"
       IN /\ messages' = IF result = "200" THEN r.messages ELSE messages
          /\ last_message_at' = IF result = "200"
                                THEN update_last_message_time(last_message_at,
                                                              messages[m].conv)
                                ELSE last_message_at
          /\ cache' = IF result = "200"
                      THEN invalidate_conversation_cache(cache, messages[m].conv)
                      ELSE cache
          /\ queue' = IF result = "200"
                      THEN queue \cup {Job("moderate_content", m, new_content)}
                      ELSE queue
          /\ last' = [NoCall EXCEPT !.op = "rest_edit", !.user = user, !.conv = c,
                        !.msg = m, !.content = new_content,
                        !.body = IF result = "200" THEN MessageData(r.messages, m)
                                 ELSE << >>,
                        !.result = result]
    /\ events' = {}
    /\ UNCHANGED <<conversations, participants, reactions, wsVars, procs, rateVars, hookVars, capacity, modVars>>

\* MessageViewSet.delete without its check of the sender
DeleteRefusal_AnySender(user, m) == "none"

\* MessageViewSet.delete: the status it refuses the request with, "none" when
\* it goes on to soft_delete
DeleteRefusal(user, m) ==
    IF messages[m].sender # user THEN "403" ELSE "none"

\* MessageViewSet.delete: POST messages/{m}/delete/?conversation_id=c
RestDelete(user, c, m) ==
    /\ m \in DOMAIN messages
    /\ LET r == soft_delete(messages, m)
           result == IF ~GetObjectFinds(user, c, m) THEN "404"
                     ELSE IF DeleteRefusal(user, m) # "none" THEN DeleteRefusal(user, m)
                     ELSE IF r.raised THEN "500" ELSE "204"
       IN /\ messages' = IF result = "204" THEN r.messages ELSE messages
          /\ last_message_at' = IF result = "204"
                                THEN update_last_message_time(last_message_at,
                                                              messages[m].conv)
                                ELSE last_message_at
          /\ cache' = IF result = "204"
                      THEN invalidate_conversation_cache(cache, messages[m].conv)
                      ELSE cache
          /\ last' = [NoCall EXCEPT !.op = "rest_delete", !.user = user, !.conv = c,
                        !.msg = m, !.result = result]
    /\ events' = {}
    /\ UNCHANGED <<conversations, participants, reactions, wsVars, procs, rateVars, hookVars, capacity, queue, modVars>>

\* ------------------------------------------------------------- list views

\* Conversation.get_latest_message: the newest message of conversation c that
\* is not deleted, 0 if there is none.
LastMessage(c) ==
    LET ids == {m \in DOMAIN messages : messages[m].conv = c /\ ~messages[m].is_deleted}
    IN IF ids = {} THEN 0 ELSE CHOOSE m \in ids : \A n \in ids : n <= m

\* What the conversation list of the user shows: the conversations of
\* get_user_conversations, each with its last message.
ConversationsPage(user) ==
    [convs |-> get_user_conversations(user),
     msgs |-> {LastMessage(c) : c \in get_user_conversations(user)} \ {0}]

\* What the message list of conversation c shows to the user
\* (MessageViewSet.get_queryset): nothing unless the conversation exists and
\* the user is a participant of it.
MessagesPage(user, c) ==
    IF c \in DOMAIN conversations /\ is_participant(c, user)
    THEN [convs |-> {c}, msgs |-> {m \in DOMAIN messages : /\ messages[m].conv = c
                                                            /\ ~messages[m].is_deleted}]
    ELSE [convs |-> {}, msgs |-> {}]

\* utils.get_user_conversations_cached and get_conversation_messages_cached:
\* the queryset is cached under key unless a non-empty one is there. The views
\* chain select_related on what they get, which runs the query again.
CachedQuery(ch, key, value) ==
    IF key \in DOMAIN ch /\ (ch[key].convs # {} \/ ch[key].msgs # {})
    THEN ch ELSE Put(ch, key, value)

\* ConversationViewSet.list: GET conversations/. The response is cached under
\* user_conversations_list_{user} and a cached response is returned as it is.
ListConversations(user) ==
    LET key == <<"user_conversations_list", user, 0>>
        fresh == ConversationsPage(user)
    IN /\ cache' = IF key \in DOMAIN cache THEN cache
                   ELSE Put(CachedQuery(cache, <<"user_conversations", user, 0>>,
                                        [fresh EXCEPT !.msgs = {}]),
                            key, fresh)
       /\ last' = [NoCall EXCEPT !.op = "list_conversations", !.user = user,
                     !.served = IF key \in DOMAIN cache THEN cache[key] ELSE fresh,
                     !.result = "200"]
       /\ events' = {}
       /\ UNCHANGED <<dbVars, wsVars, procs, rateVars, hookVars, last_message_at, capacity, queue, modVars>>

\* MessageViewSet.list: GET messages/?conversation_id=c. The response is cached
\* under conversation_messages_{c}_{user}; get_conversation_messages_cached
\* uses conversation_messages_{c}_50.
ListMessages(user, c) ==
    LET key == <<"conversation_messages", c, user>>
        fresh == MessagesPage(user, c)
    IN /\ cache' = IF key \in DOMAIN cache THEN cache
                   ELSE IF c \in DOMAIN conversations /\ is_participant(c, user)
                   THEN Put(CachedQuery(cache, <<"conversation_messages", c, 50>>,
                                        [fresh EXCEPT !.convs = {}]),
                            key, fresh)
                   ELSE Put(cache, key, fresh)
       /\ last' = [NoCall EXCEPT !.op = "list_messages", !.user = user, !.conv = c,
                     !.served = IF key \in DOMAIN cache THEN cache[key] ELSE fresh,
                     !.result = "200"]
       /\ events' = {}
       /\ UNCHANGED <<dbVars, wsVars, procs, rateVars, hookVars, last_message_at, capacity, queue, modVars>>

\* --------------------------------------------------------------- reactions

\* The reaction rows of (message, user, emoji).
ReactionRows(reacts, m, user, emoji) ==
    {i \in DOMAIN reacts :
        reacts[i].message = m /\ reacts[i].user = user /\ reacts[i].emoji = emoji}

\* The create on a table without the unique (message, user, emoji) constraint.
ReactionCreate_NoUnique(reacts, m, user, emoji) ==
    IF ~is_participant(messages[m].conv, user)
    THEN [raised |-> "ValidationError", reactions |-> reacts]
    ELSE [raised |-> "no",
          reactions |-> Append(reacts, [message |-> m, user |-> user, emoji |-> emoji])]

\* MessageReaction.objects.create: MessageReaction.save runs clean (the user is
\* a participant of the message's conversation), then the INSERT, which fails
\* on the unique (message, user, emoji) constraint.
ReactionCreate(reacts, m, user, emoji) ==
    IF ~is_participant(messages[m].conv, user)
    THEN [raised |-> "ValidationError", reactions |-> reacts]
    ELSE IF ReactionRows(reacts, m, user, emoji) # {}
    THEN [raised |-> "IntegrityError", reactions |-> reacts]
    ELSE [raised |-> "no",
          reactions |-> Append(reacts, [message |-> m, user |-> user, emoji |-> emoji])]

\* filter(message, user, emoji).delete()
ReactionDelete(reacts, m, user, emoji) ==
    SelectSeq(reacts, LAMBDA r : ~(r.message = m /\ r.user = user /\ r.emoji = emoji))

\* MessageViewSet.react: POST messages/{m}/react/?conversation_id=c
RestReact(user, c, m, emoji) ==
    /\ m \in DOMAIN messages
    /\ LET r == ReactionCreate(reactions, m, user, emoji)
           result == IF ~GetObjectFinds(user, c, m) THEN "404"
                     ELSE IF ~is_participant(messages[m].conv, user) THEN "403"
                     ELSE IF r.raised # "no" THEN "400" ELSE "201"
       IN /\ result = "201" => Len(reactions) < MaxReactions
          /\ reactions' = IF result = "201" THEN r.reactions ELSE reactions
          /\ cache' = IF result = "201"
                      THEN invalidate_conversation_cache(cache, messages[m].conv)
                      ELSE cache
          /\ last' = [NoCall EXCEPT !.op = "rest_react", !.user = user,
                        !.conv = c, !.msg = m, !.emoji = emoji,
                        !.result = result]
    /\ events' = {}
    /\ UNCHANGED <<conversations, participants, messages, wsVars, procs, rateVars, hookVars, last_message_at, capacity, queue, modVars>>

\* MessageViewSet.remove_reaction: POST messages/{m}/remove_reaction/?conversation_id=c
RestRemoveReaction(user, c, m, emoji) ==
    /\ m \in DOMAIN messages
    /\ LET found == GetObjectFinds(user, c, m)
       IN /\ reactions' = IF found THEN ReactionDelete(reactions, m, user, emoji)
                          ELSE reactions
          /\ cache' = IF found
                      THEN invalidate_conversation_cache(cache, messages[m].conv)
                      ELSE cache
          /\ last' = [NoCall EXCEPT !.op = "rest_remove_reaction", !.user = user,
                        !.conv = c, !.msg = m, !.emoji = emoji,
                        !.result = IF found THEN "204" ELSE "404"]
    /\ events' = {}
    /\ UNCHANGED <<conversations, participants, messages, wsVars, procs, rateVars, hookVars, last_message_at, capacity, queue, modVars>>

\* ConversationViewSet.direct: POST conversations/direct/. The serializer
\* refuses the requester as recipient and a blank message; with a message the
\* view creates it in the conversation it got or created.
RestDirect(user, recipient, with_message, mtype) ==
    LET goc == get_or_create_direct_conversation(conversations, user, recipient)
        row == NewMessage(goc.id, user, mtype, "hi", FALSE)
        \* Message.clean of the new row; the requester is a participant of goc.id
        msg_raises == row.mtype = "image" /\ ~row.has_file
        result == IF recipient = user THEN "400"
                  ELSE IF goc.raised # "no" THEN "500"
                  ELSE IF with_message /\ msg_raises THEN "500"
                  ELSE IF goc.created THEN "201" ELSE "200"
    IN /\ Len(goc.conversations) <= MaxConversations
       /\ with_message => Len(messages) < MaxMessages
       /\ conversations' = IF result = "400" THEN conversations ELSE goc.conversations
       /\ messages' = IF with_message /\ result \in {"200", "201"}
                      THEN Append(messages, row) ELSE messages
       /\ last_message_at' = IF with_message /\ result \in {"200", "201"}
                             THEN update_last_message_time(last_message_at, goc.id)
                             ELSE last_message_at
       /\ cache' = IF result # "400" /\ goc.raised = "no" /\ goc.created
                   THEN invalidate_user_cache(cache, {user, recipient})
                   ELSE cache
       /\ queue' = IF with_message /\ result \in {"200", "201"}
                   THEN queue \cup {Job("moderate_content", Len(messages) + 1, "hi"),
                                    Job("process_message_encryption",
                                        Len(messages) + 1, "")}
                   ELSE queue
       /\ last' = [NoCall EXCEPT !.op = "rest_direct", !.user = user,
                     !.other = recipient,
                     !.mtype = IF with_message THEN mtype ELSE "",
                     !.content = IF with_message THEN "hi" ELSE "",
                     !.conv = IF result \in {"200", "201"} THEN goc.id ELSE 0,
                     !.msg = IF with_message /\ result \in {"200", "201"}
                             THEN Len(messages) + 1 ELSE 0,
                     !.created = result # "400" /\ goc.created,
                     !.result = result]
       /\ events' = {}
       /\ UNCHANGED <<participants, reactions, wsVars, procs, rateVars, hookVars, capacity, modVars>>

\* ---------------------------------------------------------- websocket consumer

\* The Sent messages of conversation c from others than user, in id order
\* (the queryset of mark_messages_delivered).
RECURSIVE UndeliveredFrom(_, _, _, _)
UndeliveredFrom(msgs, c, user, m) ==
    IF m > Len(msgs) THEN << >>
    ELSE (IF msgs[m].conv = c /\ msgs[m].status = "sent" /\ msgs[m].sender # user
          THEN <<m>> ELSE << >>) \o UndeliveredFrom(msgs, c, user, m + 1)

\* The loop of mark_messages_delivered: each save commits by itself; the first
\* mark_as_delivered that raises ends the loop.
RECURSIVE MarkEachDelivered(_, _)
MarkEachDelivered(msgs, ids) ==
    IF ids = << >> THEN [raised |-> FALSE, messages |-> msgs]
    ELSE LET r == mark_as_delivered(msgs, Head(ids))
         IN IF r.raised THEN r ELSE MarkEachDelivered(r.messages, Tail(ids))

\* ChatConsumer.mark_messages_delivered of a connecting user, run by worker p,
\* up to the evaluation of its queryset: the Sent messages from others are
\* loaded, each as the row is at this moment.
DeliveredLoad(p, user, c) ==
    /\ procs[p].pc = "idle"
    /\ c \in DOMAIN conversations
    /\ is_participant(c, user)
    /\ LET ids == UndeliveredFrom(messages, c, user, 1)
       IN /\ ids # << >>
          /\ procs' = [procs EXCEPT ![p] =
                         [IdleProc EXCEPT !.pc = "marking", !.u1 = user, !.conv = c,
                            !.copies = [i \in DOMAIN ids |->
                                          [id |-> ids[i], row |-> messages[ids[i]]]]]]
    /\ events' = {}
    /\ UNCHANGED <<dbVars, wsVars, last, rateVars, hookVars, sideVars, modVars>>

\* The loop of mark_messages_delivered over the loaded instances:
\* mark_as_delivered tests the status of the instance and saves its status and
\* delivered_at.
RECURSIVE SaveEachDelivered(_, _)
SaveEachDelivered(msgs, copies) ==
    IF copies = << >> THEN [raised |-> FALSE, messages |-> msgs]
    ELSE LET h == Head(copies)
             r == IF h.row.status = "sent"
                  THEN MessageSave(msgs, h.id,
                                   [h.row EXCEPT !.status = "delivered",
                                                 !.delivered_at = <<now>>],
                                   {"status", "delivered_at"})
                  ELSE [raised |-> FALSE, messages |-> msgs]
         IN IF r.raised THEN r ELSE SaveEachDelivered(r.messages, Tail(copies))

\* The rest of mark_messages_delivered of worker p.
DeliveredSave(p) ==
    /\ procs[p].pc = "marking"
    /\ LET r == SaveEachDelivered(messages, procs[p].copies)
       IN /\ messages' = r.messages
          /\ last_message_at' = IF r.messages # messages
                                THEN update_last_message_time(last_message_at, procs[p].conv)
                                ELSE last_message_at
          /\ procs' = [procs EXCEPT ![p].pc = IF r.raised THEN "raised" ELSE "returned"]
          /\ last' = [NoCall EXCEPT !.op = "mark_messages_delivered",
                        !.user = procs[p].u1, !.conv = procs[p].conv,
                        !.result = IF r.raised THEN "ValidationError" ELSE "ok"]
    /\ events' = {}
    /\ UNCHANGED <<conversations, participants, reactions, wsVars, rateVars, hookVars, capacity, queue, cache, modVars>>

\* ChatConsumer.connect for an authenticated user and the conversation of the
\* URL. A refused connection keeps conversation_group_name until its disconnect
\* runs; an exception in mark_messages_delivered ends the consumer after accept.
Connect(k, user, c) ==
    /\ connections[k].state = "closed"
    /\ online' = online \cup {user}
    /\ IF c \notin DOMAIN conversations \/ ~is_participant(c, user)
       THEN /\ connections' = [connections EXCEPT ![k] =
                    [state |-> "refused", user |-> user, conv |-> c, in_group |-> FALSE]]
            /\ messages' = messages
            /\ last_message_at' = last_message_at
            /\ events' = {}
            /\ last' = [NoCall EXCEPT !.op = "ws_connect", !.user = user, !.conv = c,
                                      !.result = "closed"]
       ELSE LET r == MarkEachDelivered(messages, UndeliveredFrom(messages, c, user, 1))
            IN /\ connections' = [connections EXCEPT ![k] =
                       [state |-> IF r.raised THEN "crashed" ELSE "open",
                        user |-> user, conv |-> c, in_group |-> TRUE]]
               /\ messages' = r.messages
               /\ last_message_at' = IF r.messages # messages
                                     THEN update_last_message_time(last_message_at, c)
                                     ELSE last_message_at
               /\ events' = {Event("user_online", c, 0, user)}
               /\ last' = [NoCall EXCEPT !.op = "ws_connect", !.user = user, !.conv = c,
                             !.result = IF r.raised THEN "ValidationError" ELSE "accepted"]
    /\ UNCHANGED <<conversations, participants, reactions, typing, procs, rateVars, hookVars, capacity, queue, cache, modVars>>

\* The channel-layer handlers of connection k (chat_message, typing_indicator,
\* read_receipt, message_reaction, user_online, user_offline): an event sent to
\* a group is handed to every live consumer that is in the group, and the
\* handler writes it to the socket.
Receives(k, e) ==
    /\ connections[k].state = "open"
    /\ connections[k].in_group
    /\ connections[k].conv = e.group

\* ChatConsumer.connect for a user who is not authenticated: close() and
\* return, before anything is set on the consumer or written.
ConnectAnonymous(k, c) ==
    /\ connections[k].state = "closed"
    /\ last' = [NoCall EXCEPT !.op = "ws_connect", !.conv = c, !.result = "closed"]
    /\ events' = {}
    /\ UNCHANGED <<dbVars, wsVars, procs, rateVars, hookVars, sideVars, modVars>>

\* TypingIndicator.start_typing: get_or_create of the row of the conversation
\* and the user; a user who is not a participant gets a ValidationError.
start_typing(rows, c, user) ==
    IF ~is_participant(c, user) THEN [raised |-> TRUE, rows |-> rows]
    ELSE [raised |-> FALSE, rows |-> rows \cup {<<c, user>>}]

\* TypingIndicator.stop_typing: the rows of the conversation and the user are
\* deleted, whoever the user is.
stop_typing(rows, c, user) == rows \ {<<c, user>>}

\* ChatConsumer.disconnect: the consumer leaves the group, the typing row of its
\* user is deleted, the user is set offline and user_offline is sent.
Disconnect(k) ==
    /\ connections[k].state \in {"open", "refused"}
    /\ connections' = [connections EXCEPT ![k] = NoConnection]
    /\ typing' = stop_typing(typing, connections[k].conv, connections[k].user)
    /\ online' = online \ {connections[k].user}
    /\ last' = [NoCall EXCEPT !.op = "ws_disconnect", !.user = connections[k].user,
                              !.conv = connections[k].conv, !.result = "ok"]
    /\ events' = {Event("user_offline", connections[k].conv, 0, connections[k].user)}
    /\ UNCHANGED <<dbVars, procs, rateVars, hookVars, sideVars, modVars>>

\* ChatConsumer.handle_chat_message: frame {type: chat_message}, reply_to
\* being 0 when the frame has none. save_message passes no file and looks
\* reply_to up among all the messages, a missing one leaving the reply empty;
\* a ValidationError of Message.save ends the consumer.
WsChatReplyWithin(bound, k, mtype, content, reply_to) ==
    /\ connections[k].state = "open"
    /\ Len(messages) < bound
    /\ LET user == connections[k].user
           c == connections[k].conv
           found == IF reply_to \in DOMAIN messages THEN reply_to ELSE 0
           r == MessageCreate(messages, [NewMessage(c, user, mtype, content, FALSE)
                                           EXCEPT !.reply_to = found])
       IN /\ messages' = r.messages
          /\ connections' = IF r.raised THEN [connections EXCEPT ![k].state = "crashed"]
                            ELSE connections
          /\ last_message_at' = IF r.raised THEN last_message_at
                                ELSE update_last_message_time(last_message_at, c)
          /\ events' = IF r.raised THEN {}
                       ELSE {Event("chat_message", c, r.id, user)}
          /\ last' = [NoCall EXCEPT !.op = "ws_chat_message", !.user = user, !.conv = c,
                        !.mtype = mtype, !.content = content,
                        !.msg = r.id,
                        !.result = IF r.raised THEN "ValidationError" ELSE "sent"]
    /\ UNCHANGED <<conversations, participants, reactions, online, typing, procs, rateVars, hookVars, capacity, queue, cache, modVars>>

\* ChatConsumer.handle_chat_message for a frame without reply_to
WsChatMessageWithin(bound, k, mtype, content) ==
    WsChatReplyWithin(bound, k, mtype, content, 0)

\* ChatConsumer.handle_chat_message for a text frame with reply_to, the table
\* holding at most MaxMessages rows
WsChatReply(k, content, reply_to) ==
    reply_to # 0 /\ WsChatReplyWithin(MaxMessages, k, "text", content, reply_to)

\* ChatConsumer.handle_chat_message, the table holding at most MaxMessages rows
WsChatMessage(k, mtype, content) == WsChatMessageWithin(MaxMessages, k, mtype, content)

\* ChatConsumer.handle_typing_start: frame {type: typing_start}. The
\* ValidationError of start_typing ends the consumer before anything is sent.
WsTypingStart(k) ==
    /\ connections[k].state = "open"
    /\ LET user == connections[k].user
           c == connections[k].conv
           r == start_typing(typing, c, user)
       IN /\ typing' = r.rows
          /\ connections' = IF r.raised THEN [connections EXCEPT ![k].state = "crashed"]
                            ELSE connections
          /\ events' = IF r.raised THEN {} ELSE {Event("typing_indicator", c, 0, user)}
          /\ last' = [NoCall EXCEPT !.op = "ws_typing_start", !.user = user, !.conv = c,
                        !.result = IF r.raised THEN "ValidationError" ELSE "typing"]
    /\ UNCHANGED <<dbVars, online, procs, rateVars, hookVars, sideVars, modVars>>

\* ChatConsumer.handle_typing_stop: frame {type: typing_stop}. The row is
\* deleted and typing_indicator is sent to the group of the connection.
WsTypingStop(k) ==
    /\ connections[k].state = "open"
    /\ LET user == connections[k].user
           c == connections[k].conv
       IN /\ typing' = stop_typing(typing, c, user)
          /\ events' = {Event("typing_indicator", c, 0, user)}
          /\ last' = [NoCall EXCEPT !.op = "ws_typing_stop", !.user = user, !.conv = c,
                        !.result = "stopped"]
    /\ UNCHANGED <<dbVars, online, connections, procs, rateVars, hookVars, sideVars, modVars>>

\* ChatConsumer.handle_mark_read: frame {type: mark_read, message_id: m}
WsMarkRead(k, m) ==
    /\ connections[k].state = "open"
    /\ m \in DOMAIN messages
    /\ LET user == connections[k].user
           allowed == messages[m].sender # user /\ is_participant(messages[m].conv, user)
           r == mark_as_read(messages, m)
       IN /\ messages' = IF allowed THEN r.messages ELSE messages
          /\ connections' = IF allowed /\ r.raised
                            THEN [connections EXCEPT ![k].state = "crashed"]
                            ELSE connections
          /\ last' = [NoCall EXCEPT !.op = "ws_mark_read", !.user = user,
                        !.conv = messages[m].conv, !.msg = m,
                        !.result = IF ~allowed THEN "ignored"
                                   ELSE IF r.raised THEN "ValidationError"
                                   ELSE "read_receipt"]
          /\ last_message_at' = IF allowed /\ r.messages # messages
                                THEN update_last_message_time(last_message_at,
                                                              messages[m].conv)
                                ELSE last_message_at
          /\ events' = IF allowed /\ ~r.raised
                       THEN {Event("read_receipt", connections[k].conv, m, user)}
                       ELSE {}
    /\ UNCHANGED <<conversations, participants, reactions, online, typing, procs, rateVars, hookVars, capacity, queue, cache, modVars>>

\* ChatConsumer.handle_reaction: frame {type: reaction, message_id: m, emoji}
WsReaction(k, m, emoji) ==
    /\ connections[k].state = "open"
    /\ m \in DOMAIN messages
    /\ LET user == connections[k].user
           allowed == is_participant(messages[m].conv, user)
           r == ReactionCreate(reactions, m, user, emoji)
           saved == allowed /\ r.raised = "no"
       IN /\ saved => Len(reactions) < MaxReactions
          /\ reactions' = IF saved THEN r.reactions ELSE reactions
          /\ last' = [NoCall EXCEPT !.op = "ws_reaction", !.user = user,
                        !.conv = messages[m].conv, !.msg = m, !.emoji = emoji,
                        !.result = IF saved THEN "message_reaction" ELSE "ignored"]
          /\ events' = IF saved
                       THEN {Event("message_reaction", connections[k].conv, m, user)}
                       ELSE {}
    /\ UNCHANGED <<conversations, participants, messages, wsVars, procs, rateVars, hookVars, sideVars, modVars>>

\* ------------------------------------------------------------ rate limiter

\* RateLimiter.LIMITS: the per-minute limit of each configured action type.
LIMITS == [message |-> 10, reaction |-> 20, friend_request |-> 5, profile_update |-> 2]

\* The action types that callers pass: the configured ones and one that is not.
ActionTypes == DOMAIN LIMITS \cup {"login"}

\* now.replace(second=0, microsecond=0): the start of the minute of t.
WindowStart(t) == t - (t % 60)

\* check_rate_limit comparing with > where the code compares with >=.
check_rate_limit_OffByOne(trk, user, action, limit, t) ==
    LET key == <<user, action, WindowStart(t)>>
        got == IF key \in DOMAIN trk THEN trk ELSE trk @@ (key :> 0)
    IN IF got[key] > limit
       THEN [allowed |-> FALSE, trackers |-> got]
       ELSE [allowed |-> TRUE, trackers |-> [got EXCEPT ![key] = @ + 1]]

\* check_rate_limit incrementing before it compares.
check_rate_limit_IncrementFirst(trk, user, action, limit, t) ==
    LET key == <<user, action, WindowStart(t)>>
        got == IF key \in DOMAIN trk THEN trk ELSE trk @@ (key :> 0)
        inc == [got EXCEPT ![key] = @ + 1]
    IN [allowed |-> inc[key] <= limit, trackers |-> inc]

\* RateLimitTracker.check_rate_limit(user, action_type, limit_per_minute) at
\* time t: get_or_create of the minute's tracker with count 0, the comparison
\* with the limit, then the increment and the save.
check_rate_limit(trk, user, action, limit, t) ==
    LET key == <<user, action, WindowStart(t)>>
        got == IF key \in DOMAIN trk THEN trk ELSE trk @@ (key :> 0)
    IN IF got[key] >= limit
       THEN [allowed |-> FALSE, trackers |-> got]
       ELSE [allowed |-> TRUE, trackers |-> [got EXCEPT ![key] = @ + 1]]

\* check_limit giving an action type without limit the default limit of
\* check_rate_limit.
check_limit_DefaultLimit(trk, user, action, t) ==
    check_rate_limit(trk, user, action,
                     IF action \in DOMAIN LIMITS THEN LIMITS[action] ELSE 10, t)

\* RateLimiter.check_limit(user, action_type) at time t
check_limit(trk, user, action, t) ==
    IF action \notin DOMAIN LIMITS
    THEN [allowed |-> TRUE, trackers |-> trk]
    ELSE check_rate_limit(trk, user, action, LIMITS[action], t)

RECURSIVE SumOver(_, _)
SumOver(f, S) ==
    IF S = {} THEN 0
    ELSE LET k == CHOOSE x \in S : TRUE IN f[k] + SumOver(f, S \ {k})

\* The number of calls recorded in calls.
TotalCalls == SumOver(calls, DOMAIN calls)

\* The record of one more call in calls.
Called(user, action, t) ==
    LET key == <<user, action, WindowStart(t)>>
    IN IF key \in DOMAIN calls THEN [calls EXCEPT ![key] = @ + 1]
       ELSE calls @@ (key :> 1)

\* The record of one more allowed call in granted.
Granted(user, action, t) ==
    LET key == <<user, action, WindowStart(t)>>
    IN IF key \in DOMAIN granted THEN [granted EXCEPT ![key] = @ + 1]
       ELSE granted @@ (key :> 1)

\* RateLimiter.check_limit(user, action_type) of process p, up to the answer
\* of get_or_create: the minute's tracker, created with count 0 if there is
\* none, is loaded into the process's memory.
CheckLoad(p, user, action) ==
    /\ procs[p].pc = "idle"
    /\ action \in DOMAIN LIMITS
    /\ TotalCalls < MaxChecks
    /\ LET key == <<user, action, WindowStart(now)>>
           got == IF key \in DOMAIN trackers THEN trackers ELSE trackers @@ (key :> 0)
       IN /\ trackers' = got
          /\ procs' = [procs EXCEPT ![p] =
                         [IdleProc EXCEPT !.pc = "checking", !.u1 = user,
                                          !.content = action,
                                          !.stamp = WindowStart(now),
                                          !.copies = <<got[key]>>]]
    /\ calls' = Called(user, action, now)
    /\ events' = {}
    /\ UNCHANGED <<dbVars, wsVars, last, granted, now, hookVars, sideVars, modVars>>

\* The rest of the call of process p: the loaded count is compared with the
\* limit, and tracker.save() writes the loaded count plus one.
CheckSave(p) ==
    /\ procs[p].pc = "checking"
    /\ LET user == procs[p].u1
           action == procs[p].content
           key == <<user, action, procs[p].stamp>>
           count == procs[p].copies[1]
           allowed == ~(count >= LIMITS[action])
       IN /\ trackers' = IF allowed THEN [trackers EXCEPT ![key] = count + 1]
                          ELSE trackers
          /\ granted' = IF allowed THEN Granted(user, action, procs[p].stamp)
                         ELSE granted
          /\ last' = [NoCall EXCEPT !.op = "check_limit", !.user = user,
                        !.action = action,
                        !.result = IF allowed THEN "allowed" ELSE "rejected"]
    /\ procs' = [procs EXCEPT ![p] = IdleProc]
    /\ events' = {}
    /\ UNCHANGED <<dbVars, wsVars, calls, now, hookVars, sideVars, modVars>>

\* A call of RateLimiter.check_limit(user, action_type).
CheckLimit(user, action) ==
    LET r == check_limit(trackers, user, action, now)
    IN /\ TotalCalls < MaxChecks
       /\ trackers' = r.trackers
       /\ calls' = Called(user, action, now)
       /\ granted' = IF r.allowed THEN Granted(user, action, now) ELSE granted
       /\ last' = [NoCall EXCEPT !.op = "check_limit", !.user = user,
                     !.action = action,
                     !.result = IF r.allowed THEN "allowed" ELSE "rejected"]
       /\ events' = {}
       /\ UNCHANGED <<dbVars, wsVars, procs, now, hookVars, sideVars, modVars>>

\* A call of RateLimiter.is_user_rate_limited(user, action_type): a check_limit
\* call whose answer is negated.
IsUserRateLimited(user, action) ==
    LET r == check_limit(trackers, user, action, now)
    IN /\ TotalCalls < MaxChecks
       /\ trackers' = r.trackers
       /\ calls' = Called(user, action, now)
       /\ granted' = IF r.allowed THEN Granted(user, action, now) ELSE granted
       /\ last' = [NoCall EXCEPT !.op = "is_user_rate_limited", !.user = user,
                     !.action = action,
                     !.result = IF ~r.allowed THEN "limited" ELSE "not_limited"]
       /\ events' = {}
       /\ UNCHANGED <<dbVars, wsVars, procs, now, hookVars, sideVars, modVars>>

\* Half a minute passes.
Tick ==
    /\ now < MaxClock
    /\ now' = now + 30
    /\ events' = {}
    /\ UNCHANGED <<dbVars, wsVars, last, procs, trackers, calls, granted, hookVars, sideVars, modVars>>

\* -------------------------------------------------------- webhook delivery

\* @shared_task(bind=True, max_retries=3)
max_retries == 3

\* What the endpoint's server can answer: an HTTP status, or 0 for no answer
\* (requests.post raises: connection error or timeout).
Responses == {200, 204, 500, 0}

\* WebhookManager.send_webhook for the registered endpoint: deliver_webhook.delay
SendWebhook ==
    /\ job.state = "none"
    /\ job' = [job EXCEPT !.task = "deliver_webhook", !.state = "queued"]
    /\ events' = {}
    /\ UNCHANGED <<dbVars, wsVars, last, procs, rateVars, endpoint, deliveries, sideVars, modVars>>

\* self.retry(exc, countdown) of a task at request.retries: the task is queued
\* again after the countdown, or, the retries used up, exc is raised.
Retry(j, countdown) ==
    IF j.retries >= max_retries
    THEN [j EXCEPT !.state = "failed"]
    ELSE [j EXCEPT !.state = "queued", !.retries = @ + 1,
                   !.countdowns = Append(@, countdown)]

\* 2 ** n
RECURSIVE Pow2(_)
Pow2(n) == IF n = 0 THEN 1 ELSE 2 * Pow2(n - 1)

\* One execution of deliver_webhook, the endpoint's server answering resp.
DeliverWebhook(resp) ==
    /\ job.task = "deliver_webhook"
    /\ job.state = "queued"
    /\ LET created == [response_status |-> 0, is_delivered |-> FALSE,
                       delivery_attempts |-> 1, next_retry_minutes |-> 0]
           delivery == IF resp = 0 THEN created
                       ELSE IF resp = 200
                       THEN [created EXCEPT !.response_status = resp,
                                            !.is_delivered = TRUE]
                       ELSE [created EXCEPT !.response_status = resp,
                               !.next_retry_minutes = 5 * created.delivery_attempts]
           raised == \/ resp = 0
                     \/ (~delivery.is_delivered /\ delivery.delivery_attempts < 3)
           ran == [job EXCEPT !.responses = Append(@, resp)]
       IN /\ deliveries' = Append(deliveries, delivery)
          /\ endpoint' = IF resp = 0 THEN endpoint
                         ELSE IF resp = 200
                         THEN [endpoint EXCEPT !.total_sent = @ + 1]
                         ELSE [endpoint EXCEPT !.total_failed = @ + 1]
          /\ job' = IF raised THEN Retry(ran, 60 * Pow2(job.retries))
                    ELSE [ran EXCEPT !.state = "succeeded"]
    /\ events' = {}
    /\ UNCHANGED <<dbVars, wsVars, last, procs, rateVars, sideVars, modVars>>

\* settings.WEBHOOK_RETRY_DELAY, the base of send_webhook's countdown (seconds)
WEBHOOK_RETRY_DELAY == 60

\* send_webhook.delay(url, payload): the task is put on the queue
SendWebhookDelay ==
    /\ job.state = "none"
    /\ job' = [job EXCEPT !.task = "send_webhook", !.state = "queued"]
    /\ events' = {}
    /\ UNCHANGED <<dbVars, wsVars, last, procs, rateVars, endpoint, deliveries, sideVars, modVars>>

\* One execution of tasks.send_webhook, the server answering resp:
\* raise_for_status raises for every 4xx and 5xx answer, requests.post for no
\* answer; both are RequestExceptions and go to self.retry(countdown, exc),
\* which raises exc once the retries are used up (the except clause for
\* MaxRetriesExceededError does not catch it).
SendWebhookTask(resp) ==
    /\ job.task = "send_webhook"
    /\ job.state = "queued"
    /\ LET raised == resp = 0 \/ resp >= 400
           ran == [job EXCEPT !.responses = Append(@, resp)]
       IN job' = IF raised
                 THEN Retry(ran, WEBHOOK_RETRY_DELAY * Pow2(job.retries))
                 ELSE [ran EXCEPT !.state = "succeeded"]
    /\ events' = {}
    /\ UNCHANGED <<dbVars, wsVars, last, procs, rateVars, endpoint, deliveries, sideVars, modVars>>

\* ------------------------------------------------------- content moderation

\* The words that texts are made of: a clean word, a profanity in lower and in
\* upper case, a spam phrase and a phone number. A text is a sequence of words.
Words == {"hello", "damn", "DAMN", "buy now", "555-123-4567"}

\* str.lower of a word
Lower(w) == IF w = "DAMN" THEN "damn" ELSE w

Texts == UNION {[1..n -> Words] : n \in 0..MaxWords}

\* ContentModerator.INAPPROPRIATE_PATTERNS with the issue type that
\* _check_patterns gives to each: the words that the pattern matches.
INAPPROPRIATE_PATTERNS ==
    <<[type |-> "profanity", words |-> {"fuck", "shit", "damn", "bitch", "asshole"}],
      [type |-> "spam", words |-> {"click here", "buy now", "limited time", "act now"}],
      [type |-> "personal_info", words |-> {"555-123-4567"}],
      [type |-> "personal_info", words |-> {"user@example.com"}]>>

\* ContentModerator.SEVERITY_SCORES, in hundredths
SEVERITY_SCORES ==
    [profanity |-> 70, spam |-> 50, personal_info |-> 80, harassment |-> 90,
     explicit |-> 95]

\* re.findall(pattern, content_lower, re.IGNORECASE) finds something
Matches(pattern, content) ==
    \E i \in DOMAIN content : Lower(content[i]) \in pattern.words

\* ContentModerator._check_patterns: the types of the issues found
check_patterns(content) ==
    {INAPPROPRIATE_PATTERNS[i].type :
        i \in {j \in DOMAIN INAPPROPRIATE_PATTERNS :
                  Matches(INAPPROPRIATE_PATTERNS[j], content)}}

\* The greatest severity of the issues, 0 without issue.
MaxSeverity(issues) ==
    IF issues = {} THEN 0
    ELSE CHOOSE s \in {SEVERITY_SCORES[t] : t \in issues} :
            \A t \in issues : SEVERITY_SCORES[t] <= s

\* ContentModerator._censor_content: re.sub of every pattern, ignoring case
censor_content(content) ==
    [i \in DOMAIN content |->
        IF \E j \in DOMAIN INAPPROPRIATE_PATTERNS :
              Lower(content[i]) \in INAPPROPRIATE_PATTERNS[j].words
        THEN "***" ELSE content[i]]

\* moderate_text's choice of the action with every threshold one step higher
DetermineAction_Lenient(max_severity) ==
    IF max_severity >= 95
    THEN [is_appropriate |-> FALSE, action_required |-> "block", censor |-> TRUE]
    ELSE IF max_severity >= 80
    THEN [is_appropriate |-> FALSE, action_required |-> "flag", censor |-> TRUE]
    ELSE IF max_severity >= 70
    THEN [is_appropriate |-> TRUE, action_required |-> "flag", censor |-> FALSE]
    ELSE [is_appropriate |-> TRUE, action_required |-> "none", censor |-> FALSE]

\* moderate_text: the action determined by the severity
DetermineAction(max_severity) ==
    IF max_severity >= 90
    THEN [is_appropriate |-> FALSE, action_required |-> "block", censor |-> TRUE]
    ELSE IF max_severity >= 70
    THEN [is_appropriate |-> FALSE, action_required |-> "flag", censor |-> TRUE]
    ELSE IF max_severity >= 50
    THEN [is_appropriate |-> TRUE, action_required |-> "flag", censor |-> FALSE]
    ELSE [is_appropriate |-> TRUE, action_required |-> "none", censor |-> FALSE]

\* ContentModerator.moderate_text, without its log entry
moderate_text(content) ==
    LET issues == check_patterns(content)
        d == DetermineAction(MaxSeverity(issues))
    IN [is_appropriate |-> d.is_appropriate,
        confidence_score |-> MaxSeverity(issues),
        issues_found |-> issues,
        action_required |-> d.action_required,
        filtered_content |-> IF d.censor THEN censor_content(content) ELSE content]

\* ContentModerator._log_moderation: the ContentModerationLog row
LogRow(user, results) ==
    [user |-> user,
     action |-> IF results.action_required = "block" THEN "blocked"
                ELSE IF results.action_required = "flag" THEN "flagged"
                ELSE "approved",
     reason |-> results.issues_found,
     confidence_score |-> results.confidence_score]

\* The log after moderate_text(content, user): a row is written if a user
\* was passed and an action is required.
Logged(log, user, results) ==
    IF user # 0 /\ results.action_required # "none"
    THEN Append(log, LogRow(user, results)) ELSE log

\* A call of ContentModerator.moderate_text(content, user); user 0 is None.
ModerateText(content, user) ==
    LET results == moderate_text(content)
    IN /\ Len(Logged(modlog, user, results)) <= MaxLogs
       /\ modlog' = Logged(modlog, user, results)
       /\ moderated' = [NoModeration EXCEPT !.op = "moderate_text",
                          !.content = content, !.user = user, !.result = results]
       /\ events' = {}
       /\ UNCHANGED <<dbVars, wsVars, last, procs, rateVars, hookVars, sideVars, task_results>>

\* settings.CONTENT_MODERATION_WEBHOOKS: the URLs told of flagged content
CONTENT_MODERATION_WEBHOOKS == {}

\* The words of a message's content: one word, none for the empty content.
Tokens(content) == IF content = "" THEN << >> ELSE <<content>>

\* One execution of tasks.moderate_content(message_id, content), job j of the
\* queue. moderate_message_content passes no user to moderate_text; flagged is
\* `not is_appropriate`. For flagged content the message is saved (is_flagged
\* and moderation_result are no columns of Message; save runs clean, and an
\* exception ends the task with an error result) and send_webhook is queued
\* for each configured URL.
ModerateContent(j) ==
    /\ j \in queue
    /\ j.task = "moderate_content"
    /\ LET results == moderate_text(Tokens(j.content))
           flagged == ~results.is_appropriate
           saved == flagged /\ ~MessageCleanRaises(messages[j.msg])
       IN /\ modlog' = Logged(modlog, 0, results)
          /\ last_message_at' =
                IF saved
                THEN update_last_message_time(last_message_at, messages[j.msg].conv)
                ELSE last_message_at
          /\ queue' = (queue \ {j}) \cup
                         (IF saved
                          THEN {Job("send_webhook", j.msg, "content_flagged") :
                                  url \in CONTENT_MODERATION_WEBHOOKS}
                          ELSE {})
          /\ moderated' = [NoModeration EXCEPT !.op = "moderate_content",
                             !.msg = j.msg, !.content = Tokens(j.content),
                             !.result = results]
    /\ events' = {}
    /\ UNCHANGED <<dbVars, wsVars, last, procs, rateVars, hookVars, capacity, cache, task_results>>

\* tasks.moderate_content for job j of the queue, run by worker p, up to
\* Message.objects.get: the message is loaded as the row is at this moment.
ModerateLoad(p, j) ==
    /\ procs[p].pc = "idle"
    /\ j \in queue
    /\ j.task = "moderate_content"
    /\ j.msg \in DOMAIN messages
    /\ procs' = [procs EXCEPT ![p] =
                   [IdleProc EXCEPT !.pc = "moderating", !.conv = messages[j.msg].conv,
                      !.content = j.content,
                      !.copies = <<[id |-> j.msg, row |-> messages[j.msg]]>>]]
    /\ queue' = queue \ {j}
    /\ events' = {}
    /\ UNCHANGED <<dbVars, wsVars, last, rateVars, hookVars, last_message_at, capacity, cache, modVars>>

\* The rest of moderate_content of worker p: for flagged content message.save()
\* writes every column of the loaded instance (clean runs first; an exception
\* ends the task with an error result).
ModerateSave(p) ==
    /\ procs[p].pc = "moderating"
    /\ LET copy == procs[p].copies[1]
           results == moderate_text(Tokens(procs[p].content))
           flagged == ~results.is_appropriate
           r == MessageSave(messages, copy.id, copy.row, DOMAIN copy.row)
           saved == flagged /\ ~r.raised
       IN /\ messages' = IF saved THEN r.messages ELSE messages
          /\ last_message_at' = IF saved
                                THEN update_last_message_time(last_message_at, procs[p].conv)
                                ELSE last_message_at
          /\ queue' = queue \cup
                         (IF saved
                          THEN {Job("send_webhook", copy.id, "content_flagged") :
                                  url \in CONTENT_MODERATION_WEBHOOKS}
                          ELSE {})
          /\ modlog' = Logged(modlog, 0, results)
          /\ moderated' = [NoModeration EXCEPT !.op = "moderate_content",
                             !.msg = copy.id, !.content = Tokens(procs[p].content),
                             !.result = results]
          /\ procs' = [procs EXCEPT ![p].pc = "returned"]
    /\ events' = {}
    /\ UNCHANGED <<conversations, participants, reactions, wsVars, last, rateVars, hookVars, capacity, cache, task_results>>

\* ----------------------------------------------------------------- encryption

\* The names that `from .encryption import ...` finds: encryption.py defines two
\* classes; encrypt_message_content is a static method of MessageEncryption.
EncryptionNames == {"MessageEncryption", "UserKeyManager"}

\* The columns of Message that the encryption task reads and writes
EncryptionColumns == {"is_encrypted", "encrypted_content"} \cap DOMAIN NewMessage(0, 0, "", "", FALSE)

\* One execution of tasks.process_message_encryption(m). The import at the top
\* of the task is outside its try and raises when the name is missing; inside
\* the try a missing message and any other exception (reading is_encrypted,
\* which is no attribute of a Message) give an error result.
ProcessMessageEncryption(m) ==
    /\ m \in MessageIds
    /\ Len(task_results) < MaxRuns
    /\ LET result == IF "encrypt_message_content" \notin EncryptionNames
                     THEN "ImportError"
                     ELSE IF m \notin DOMAIN messages THEN "error"
                     ELSE IF "is_encrypted" \notin EncryptionColumns THEN "error"
                     ELSE "encrypted"
       IN /\ last' = [NoCall EXCEPT !.op = "process_message_encryption", !.msg = m,
                        !.result = result]
          /\ task_results' = Append(task_results, [msg |-> m, result |-> result])
          /\ queue' = queue \ {Job("process_message_encryption", m, "")}
    /\ events' = {}
    /\ UNCHANGED <<dbVars, wsVars, procs, rateVars, hookVars, last_message_at, capacity, cache, modlog, moderated>>

\* ------------------------------------------------------------ specifications

\* Direct conversations, one call at a time; the first message comes with the
\* request for the conversation.
NextDirect ==
    \/ \E u1 \in Users, u2 \in Users : GetOrCreateDirect(u1, u2)
    \/ \E u \in Users, r \in Users : RestDirect(u, r, FALSE, "text")
    \/ \E u \in Users, r \in Users, t \in MessageTypes :
         messages = << >> /\ RestDirect(u, r, TRUE, t)

\* Concurrent get_or_create_direct_conversation calls.
NextRace ==
    \/ \E p \in Procs, u1 \in Users, u2 \in Users : RaceGet(p, u1, u2)
    \/ \E p \in Procs : RaceCreate(p)
    \/ \E p \in Procs : RaceReturn(p)

\* Group membership.
NextMembers ==
    \/ \E u \in Users, t \in Titles, ids \in SUBSET Users : RestGroup(u, t, ids)
    \/ \E u \in Users, c \in ConvIds, x \in Users : RestAddParticipant(u, c, x)
    \/ \E u \in Users, c \in ConvIds, x \in Users : RestRemoveParticipant(u, c, x)

\* Message creation on every entry point.
NextCreate ==
    \/ \E u \in Users, c \in ConvIds, t \in MessageTypes, x \in Contents, f \in BOOLEAN :
         RestSend(u, c, t, x, f)
    \/ \E u \in Users, c \in ConvIds, t \in MessageTypes, x \in Contents :
         CreateMessageView(u, c, t, x)
    \/ \E k \in ConnIds, t \in MessageTypes, x \in Contents : WsChatMessage(k, t, x)

\* Delivery and read marking.
NextStatus ==
    \/ \E m \in MessageIds : MarkAsDelivered(m)
    \/ \E m \in MessageIds : MarkAsRead(m)
    \/ \E u \in Users, c \in ConvIds, m \in MessageIds : RestMarkRead(u, c, m)
    \/ \E u \in Users, ids \in SUBSET MessageIds : BulkMarkRead(u, ids)
    \/ \E k \in ConnIds, m \in MessageIds : WsMarkRead(k, m)

NextReactions ==
    \/ \E u \in Users, c \in ConvIds, m \in MessageIds, e \in Emojis : RestReact(u, c, m, e)
    \/ \E u \in Users, c \in ConvIds, m \in MessageIds, e \in Emojis :
         RestRemoveReaction(u, c, m, e)
    \/ \E k \in ConnIds, m \in MessageIds, e \in Emojis : WsReaction(k, m, e)

NextConnections ==
    \/ \E k \in ConnIds, u \in Users, c \in ConvIds : Connect(k, u, c)
    \/ \E k \in ConnIds : Disconnect(k)

\* The users and action types of the rate limiter's specification.
RateUsers == {1, 2}
RateActions == {"profile_update", "friend_request", "login"}

\* The whole service.
Next ==
    \/ \E u1 \in Users, u2 \in Users : GetOrCreateDirect(u1, u2)
    \/ \E u \in Users, r \in Users, w \in BOOLEAN, t \in MessageTypes :
         RestDirect(u, r, w, t)
    \/ NextMembers
    \/ NextCreate
    \/ NextStatus
    \/ NextReactions
    \/ NextConnections
    \/ \E u \in Users, a \in ActionTypes : CheckLimit(u, a)
    \/ \E u \in Users, a \in ActionTypes : IsUserRateLimited(u, a)
    \/ Tick
    \/ SendWebhook
    \/ \E r \in Responses : DeliverWebhook(r)
    \/ SendWebhookDelay
    \/ \E r \in Responses : SendWebhookTask(r)
    \/ \E u \in Users : ListConversations(u)
    \/ \E u \in Users, c \in ConvIds : ListMessages(u, c)
    \/ \E c \in ConvIds : SetMaxParticipants(c, TestMax)
    \/ \E p \in Procs, c \in ConvIds, x \in Users : AddCheck(p, c, x)
    \/ \E p \in Procs : AddWrite(p)
    \/ \E content \in Texts, user \in Users \cup {0} : ModerateText(content, user)
    \/ \E j \in queue : ModerateContent(j)
    \/ \E u \in Users, c \in ConvIds, x \in Contents, r \in MessageIds :
         RestSendReply(u, c, x, r)
    \/ \E u \in Users, c \in ConvIds, m \in MessageIds, x \in Edits : RestEdit(u, c, m, x)
    \/ \E u \in Users, c \in ConvIds, m \in MessageIds : RestDelete(u, c, m)
    \/ \E m \in MessageIds : ProcessMessageEncryption(m)
    \/ \E p \in Procs, u \in Users, c \in ConvIds : SaveBegin(p, u, c)
    \/ \E p \in Procs : SaveEnd(p)
    \/ \E p \in Procs, u \in Users, c \in ConvIds : DeliveredLoad(p, u, c)
    \/ \E p \in Procs : DeliveredSave(p)
    \/ \E p \in Procs, j \in queue : ModerateLoad(p, j)
    \/ \E p \in Procs : ModerateSave(p)
    \/ \E k \in ConnIds, c \in ConvIds : ConnectAnonymous(k, c)
    \/ \E k \in ConnIds : WsTypingStart(k)
    \/ \E k \in ConnIds : WsTypingStop(k)
    \/ \E k \in ConnIds, x \in Contents, r \in MessageIds : WsChatReply(k, x, r)
    \/ \E p \in Procs, u \in Users, a \in ActionTypes : CheckLoad(p, u, a)
    \/ \E p \in Procs : CheckSave(p)

\* Delivery and read marking of the text messages of a group, created by user
\* 1, whose members change.
NextMarking ==
    \/ \E ids \in SUBSET Users : RestGroup(1, "Team", ids)
    \/ \E u \in Users, c \in ConvIds, x \in Users : RestAddParticipant(u, c, x)
    \/ \E u \in Users, c \in ConvIds, x \in Users : RestRemoveParticipant(u, c, x)
    \/ \E u \in Users, c \in ConvIds : RestSend(u, c, "text", "hi", FALSE)
    \/ \E m \in MessageIds : MarkAsDelivered(m)
    \/ \E m \in MessageIds : MarkAsRead(m)

\* Every write entry point on the first message of a group, created by user 1,
\* that members are removed from.
NextAccess ==
    \/ \E ids \in SUBSET Users : RestGroup(1, "Team", ids)
    \/ \E u \in Users, c \in ConvIds, x \in Users : RestRemoveParticipant(u, c, x)
    \/ \E k \in {1}, u \in Users, c \in ConvIds : Connect(k, u, c)
    \/ \E u \in Users, c \in ConvIds : messages = << >> /\ RestSend(u, c, "text", "hi", FALSE)
    \/ \E u \in Users, c \in ConvIds : messages = << >> /\ CreateMessageView(u, c, "text", "hi")
    \/ \E k \in {1} : messages = << >> /\ WsChatMessage(k, "text", "hi")
    \/ \E u \in Users, c \in ConvIds, m \in MessageIds : RestMarkRead(u, c, m)
    \/ \E u \in Users, ids \in SUBSET MessageIds : BulkMarkRead(u, ids)
    \/ \E k \in {1}, m \in MessageIds : WsMarkRead(k, m)
    \/ \E u \in Users, c \in ConvIds, m \in MessageIds : RestReact(u, c, m, "heart")
    \/ \E k \in {1}, m \in MessageIds : WsReaction(k, m, "heart")

\* Reactions to the first message of the direct conversation of users 1 and 2.
NextReacting ==
    \/ messages = << >> /\ RestDirect(1, 2, TRUE, "text")
    \/ \E k \in {1}, u \in Users, c \in DOMAIN conversations : Connect(k, u, c)
    \/ \E k \in {1} : Disconnect(k)
    \/ \E u \in Users, c \in ConvIds, m \in MessageIds, e \in Emojis : RestReact(u, c, m, e)
    \/ \E u \in Users, c \in ConvIds, m \in MessageIds, e \in Emojis :
         RestRemoveReaction(u, c, m, e)
    \/ \E k \in {1}, m \in MessageIds, e \in Emojis : WsReaction(k, m, e)

\* A participant and a non-participant of the direct conversation of users 1
\* and 2.
Writers == {1, 3}

\* Message creation through every write entry point, in the direct conversation
\* of users 1 and 2.
NextWriting ==
    \/ conversations = << >> /\ RestDirect(1, 2, FALSE, "text")
    \/ \E t \in MessageTypes : messages = << >> /\ RestDirect(1, 2, TRUE, t)
    \/ \E k \in {1}, u \in Writers, c \in DOMAIN conversations : Connect(k, u, c)
    \/ \E k \in {1} : Disconnect(k)
    \/ \E u \in Writers, c \in ConvIds, t \in MessageTypes, x \in Contents, f \in BOOLEAN :
         RestSend(u, c, t, x, f)
    \/ \E u \in Writers, c \in ConvIds, t \in MessageTypes, x \in Contents :
         CreateMessageView(u, c, t, x)
    \/ \E k \in {1}, t \in MessageTypes, x \in Contents : WsChatMessage(k, t, x)

\* Edits and deletions of the text and image messages of the direct
\* conversation of users 1 and 2, by its participants and by user 3.
NextEditing ==
    \/ conversations = << >> /\ RestDirect(1, 2, FALSE, "text")
    \/ \E c \in DOMAIN conversations, t \in MessageTypes : RestSend(1, c, t, "hi", t = "image")
    \/ \E u \in Writers \cup {2}, c \in DOMAIN conversations, m \in MessageIds, x \in Edits :
         RestEdit(u, c, m, x)
    \/ \E u \in Writers \cup {2}, c \in DOMAIN conversations, m \in MessageIds :
         RestDelete(u, c, m)

\* Replies to the messages of the direct conversation of users 1 and 2,
\* deletions, and the requests that read a message back: the edit of a reply
\* and the message page.
NextReplying ==
    \/ conversations = << >> /\ RestDirect(1, 2, FALSE, "text")
    \/ \E c \in DOMAIN conversations : messages = << >> /\ RestSend(1, c, "text", "hi", FALSE)
    \/ \E c \in DOMAIN conversations, r \in MessageIds : RestSendReply(2, c, "hi", r)
    \/ \E u \in {1, 2}, c \in DOMAIN conversations, m \in MessageIds : RestDelete(u, c, m)
    \/ \E c \in DOMAIN conversations, m \in MessageIds : RestEdit(2, c, m, "hello")
    \/ \E u \in {1, 2}, c \in DOMAIN conversations : ListMessages(u, c)

\* The messages that user 1 writes in one minute to the direct conversation of
\* users 1 and 2, through each entry point: one more than the limit for
\* 'message', were they all accepted.
NextBurst ==
    \/ conversations = << >> /\ RestDirect(1, 2, FALSE, "text")
    \/ \E k \in {1} : connections[k].state = "closed" /\ messages = << >>
                            /\ Connect(k, 1, 1)
    \/ RestSendWithin(LIMITS.message + 1, 1, 1, "text", "hi", FALSE)
    \/ CreateMessageViewWithin(LIMITS.message + 1, 1, 1, "text", "hi")
    \/ \E k \in {1} : WsChatMessageWithin(LIMITS.message + 1, k, "text", "hi")

\* Reads of the cached list views by user 1 and by user 3 between the writes
\* to a group of users 1 and 2: messages through each entry point, user 3
\* added and removed.
NextCache ==
    \/ conversations = << >> /\ RestGroup(1, "Team", {2})
    \/ \E c \in DOMAIN conversations : RestAddParticipant(1, c, 3)
    \/ \E c \in DOMAIN conversations : RestRemoveParticipant(1, c, 3)
    \/ \E c \in DOMAIN conversations : RestSend(1, c, "text", "hi", FALSE)
    \/ \E c \in DOMAIN conversations : CreateMessageView(1, c, "text", "hi")
    \/ \E k \in {1}, c \in DOMAIN conversations :
         connections[k].state = "closed" /\ messages = << >> /\ Connect(k, 2, c)
    \/ \E k \in {1} : WsChatMessage(k, "text", "hi")
    \/ \E u \in {1, 3} : conversations # << >> /\ ListConversations(u)
    \/ \E c \in DOMAIN conversations : ListMessages(1, c)

\* One group, created by any user with any users, whose members are added and
\* removed.
NextRoster ==
    \/ \E u \in Users, t \in Titles, ids \in SUBSET Users :
         conversations = << >> /\ RestGroup(u, t, ids)
    \/ \E u \in Users, c \in DOMAIN conversations, x \in Users :
         RestAddParticipant(u, c, x)
    \/ \E u \in Users, c \in DOMAIN conversations, x \in Users :
         RestRemoveParticipant(u, c, x)

\* A group of user 1 with the limit of the test; users are added by requests
\* one at a time and by workers that run add_participant at the same time.
NextCapacity ==
    \/ conversations = << >> /\ RestGroup(1, "Team", {})
    \/ \E c \in DOMAIN conversations : SetMaxParticipants(c, TestMax)
    \/ \E c \in DOMAIN conversations, x \in Users : RestAddParticipant(1, c, x)
    \/ \E c \in DOMAIN conversations, x \in Users : RestRemoveParticipant(1, c, x)
    \/ \E p \in Procs, c \in DOMAIN conversations, x \in Users : AddCheck(p, c, x)
    \/ \E p \in Procs : AddWrite(p)
    \/ \E p \in Procs : RaceReturn(p)

\* A group of user 1, with the default limit or the limit of the test, whose
\* members are added, removed and added again.
NextRejoin ==
    \/ \E ids \in SUBSET {2} : conversations = << >> /\ RestGroup(1, "Team", ids)
    \/ \E c \in DOMAIN conversations : SetMaxParticipants(c, TestMax)
    \/ \E c \in DOMAIN conversations, x \in Users : RestAddParticipant(1, c, x)
    \/ \E c \in DOMAIN conversations, x \in Users : RestRemoveParticipant(1, c, x)

\* Messages of the direct conversation of users 1 and 2, and the encryption
\* task run on them, once and again.
NextEncrypting ==
    \/ conversations = << >> /\ RestDirect(1, 2, FALSE, "text")
    \/ \E u \in {1, 2}, c \in DOMAIN conversations, t \in MessageTypes :
         RestSend(u, c, t, "hi", t = "image")
    \/ \E m \in MessageIds : ProcessMessageEncryption(m)

\* Users 1 and 2 write to their direct conversation at the same time, each
\* save run by a worker of its own, while time passes.
NextStamping ==
    \/ conversations = << >> /\ RestDirect(1, 2, FALSE, "text")
    \/ \E p \in Procs, u \in {1, 2}, c \in DOMAIN conversations : SaveBegin(p, u, c)
    \/ \E p \in Procs : SaveEnd(p)
    \/ \E p \in Procs : RaceReturn(p)
    \/ Tick

\* A flagged text of user 1 to user 2 that is marked, edited and deleted by
\* requests while workers mark it delivered and moderate it, each from the
\* copy it loaded.
NextStale ==
    \/ conversations = << >> /\ RestDirect(1, 2, FALSE, "text")
    \/ \E c \in DOMAIN conversations : messages = << >> /\ RestSend(1, c, "text", "damn", FALSE)
    \/ \E p \in Procs, c \in DOMAIN conversations : DeliveredLoad(p, 2, c)
    \/ \E p \in Procs : DeliveredSave(p)
    \/ \E p \in Procs, j \in queue : ModerateLoad(p, j)
    \/ \E p \in Procs : ModerateSave(p)
    \/ \E p \in Procs : RaceReturn(p)
    \/ \E c \in DOMAIN conversations, m \in DOMAIN messages : RestMarkRead(2, c, m)
    \/ \E ids \in SUBSET DOMAIN messages : BulkMarkRead(2, ids)
    \/ \E c \in DOMAIN conversations, m \in DOMAIN messages : RestEdit(1, c, m, "hello")
    \/ \E c \in DOMAIN conversations, m \in DOMAIN messages : RestDelete(1, c, m)

\* The members of a group of users 1, 2 and 3 write to it, leave it and
\* connect to it.
NextArriving ==
    \/ conversations = << >> /\ RestGroup(1, "Team", {2, 3})
    \/ \E u \in Users, c \in DOMAIN conversations : RestSend(u, c, "text", "hi", FALSE)
    \/ \E c \in DOMAIN conversations, x \in Users : RestRemoveParticipant(1, c, x)
    \/ \E k \in {1}, u \in Users, c \in DOMAIN conversations : Connect(k, u, c)
    \/ \E k \in {1}, c \in DOMAIN conversations : ConnectAnonymous(k, c)
    \/ \E k \in {1} : Disconnect(k)

\* Users 1 and 2 are connected to their group at the same time, write to it,
\* and user 1 removes user 2 from it.
NextRemoved ==
    \/ conversations = << >> /\ RestGroup(1, "Team", {2})
    \/ \E k \in ConnIds, u \in {1, 2}, c \in DOMAIN conversations : Connect(k, u, c)
    \/ \E k \in ConnIds : Disconnect(k)
    \/ \E c \in DOMAIN conversations : RestRemoveParticipant(1, c, 2)
    \/ \E k \in ConnIds : WsChatMessage(k, "text", "hi")

\* The moderator called on every text, with a user and without.
NextModerating ==
    \E content \in Texts, user \in {0, 1} : ModerateText(content, user)

\* What users 1 and 2 write to their direct conversation: a clean word, a
\* profanity, a spam phrase.
Written == {"hi", "damn", "buy now"}

\* Their messages and the moderation jobs that the requests queue for them.
NextFlagging ==
    \/ conversations = << >> /\ RestDirect(1, 2, FALSE, "text")
    \/ \E u \in {1, 2}, c \in DOMAIN conversations, x \in Written :
         RestSend(u, c, "text", x, FALSE)
    \/ \E u \in {1, 2}, c \in DOMAIN conversations, x \in Written :
         CreateMessageView(u, c, "text", x)
    \/ \E j \in queue : ModerateContent(j)

\* Messages of user 1 to user 2 that are marked again and again, by the model
\* methods and by user 2's requests, while time passes.
NextRepeat ==
    \/ conversations = << >> /\ RestDirect(1, 2, FALSE, "text")
    \/ \E c \in DOMAIN conversations : RestSend(1, c, "text", "hi", FALSE)
    \/ \E m \in DOMAIN messages : MarkAsDelivered(m)
    \/ \E m \in DOMAIN messages : MarkAsRead(m)
    \/ \E c \in DOMAIN conversations, m \in DOMAIN messages : RestMarkRead(2, c, m)
    \/ \E ids \in SUBSET DOMAIN messages : BulkMarkRead(2, ids)
    \/ Tick

\* The rate limiter called for the limited profile_update and friend_request
\* and for an action type without limit.
NextRate ==
    \/ \E u \in RateUsers, a \in RateActions : CheckLimit(u, a)
    \/ \E u \in RateUsers, a \in RateActions : IsUserRateLimited(u, a)
    \/ Tick

\* One webhook delivery task.
NextWebhook ==
    \/ SendWebhook
    \/ \E r \in Responses : DeliverWebhook(r)
    \/ SendWebhookDelay
    \/ \E r \in Responses : SendWebhookTask(r)

Spec == Init /\ [][Next]_vars
SpecRate == Init /\ [][NextRate]_vars
SpecWebhook == Init /\ [][NextWebhook]_vars
SpecDirect == Init /\ [][NextDirect]_vars
SpecRace == Init /\ [][NextRace]_vars
SpecMarking == Init /\ [][NextMarking]_vars
SpecAccess == Init /\ [][NextAccess]_vars
SpecReacting == Init /\ [][NextReacting]_vars
SpecWriting == Init /\ [][NextWriting]_vars
SpecBurst == Init /\ [][NextBurst]_vars
SpecRepeat == Init /\ [][NextRepeat]_vars
SpecFlagging == Init /\ [][NextFlagging]_vars
SpecModerating == Init /\ [][NextModerating]_vars
SpecCapacity == Init /\ [][NextCapacity]_vars
SpecRoster == Init /\ [][NextRoster]_vars
SpecEditing == Init /\ [][NextEditing]_vars
SpecReplying == Init /\ [][NextReplying]_vars
SpecRejoin == Init /\ [][NextRejoin]_vars
SpecEncrypting == Init /\ [][NextEncrypting]_vars
SpecStamping == Init /\ [][NextStamping]_vars
SpecStale == Init /\ [][NextStale]_vars
SpecArriving == Init /\ [][NextArriving]_vars
SpecRemoved == Init /\ [][NextRemoved]_vars

\* A group of users 1 and 2, the connections of user 2, the removal of user 2
\* and the frames that the connections send.
NextFrames ==
    \/ conversations = << >> /\ RestGroup(1, "Team", {2})
    \/ \E c \in DOMAIN conversations : RestSend(1, c, "text", "hi", FALSE)
    \/ \E k \in ConnIds, c \in DOMAIN conversations : Connect(k, 2, c)
    \/ \E k \in ConnIds : Disconnect(k)
    \/ \E c \in DOMAIN conversations : RestRemoveParticipant(1, c, 2)
    \/ \E k \in ConnIds : WsChatMessage(k, "text", "hi")
    \/ \E k \in ConnIds : WsTypingStart(k)
    \/ \E k \in ConnIds : WsTypingStop(k)
    \/ \E k \in ConnIds, m \in DOMAIN messages : WsMarkRead(k, m)
    \/ \E k \in ConnIds, m \in DOMAIN messages : WsReaction(k, m, "heart")

SpecFrames == Init /\ [][NextFrames]_vars

\* User 1 in the direct conversations with users 2 and 3, the messages that
\* user 2 sends, and the mark_read and reaction frames that user 1 sends on a
\* connection to one of the conversations.
NextCrossing ==
    \/ \E u \in {2, 3} : RestDirect(1, u, FALSE, "text")
    \/ \E c \in DOMAIN conversations : RestSend(2, c, "text", "hi", FALSE)
    \/ \E k \in {1}, c \in DOMAIN conversations : Connect(k, 1, c)
    \/ \E k \in {1} : Disconnect(k)
    \/ \E k \in {1}, m \in DOMAIN messages : WsMarkRead(k, m)
    \/ \E k \in {1}, m \in DOMAIN messages : WsReaction(k, m, "heart")

SpecCrossing == Init /\ [][NextCrossing]_vars

\* The connections of each user to the group of users 1 and 2, two at a time,
\* the typing frames that the first connection sends, and the disconnections.
NextPresence ==
    \/ conversations = << >> /\ RestGroup(1, "Team", {2})
    \/ \E k \in ConnIds, u \in Users, c \in DOMAIN conversations : Connect(k, u, c)
    \/ \E k \in ConnIds : Disconnect(k)
    \/ WsTypingStart(1)
    \/ WsTypingStop(1)

SpecPresence == Init /\ [][NextPresence]_vars

\* The first message of the direct conversation of users 1 and 2 and what is
\* done to it afterwards, as time passes: delivery and read marking, edits and
\* deletions.
NextTouching ==
    \/ conversations = << >> /\ RestDirect(1, 2, FALSE, "text")
    \/ \E c \in DOMAIN conversations : messages = << >> /\ RestSend(1, c, "text", "hi", FALSE)
    \/ \E m \in MessageIds : MarkAsDelivered(m)
    \/ \E m \in MessageIds : MarkAsRead(m)
    \/ \E c \in DOMAIN conversations, m \in MessageIds : RestEdit(1, c, m, "hello")
    \/ \E c \in DOMAIN conversations, m \in MessageIds : RestDelete(1, c, m)
    \/ Tick

SpecTouching == Init /\ [][NextTouching]_vars

\* The check_limit calls that two processes make for user 1, the steps of one
\* running between the steps of the other.
NextChecking ==
    \/ \E p \in Procs, a \in {"profile_update", "friend_request"} : CheckLoad(p, 1, a)
    \/ \E p \in Procs : CheckSave(p)
    \/ Tick

SpecChecking == Init /\ [][NextChecking]_vars

\* User 1 in the direct conversations with users 2 and 3, a first message and
\* the replies that user 1 sends over REST and over a websocket.
NextThreads ==
    \/ \E u \in {2, 3} : RestDirect(1, u, FALSE, "text")
    \/ \E c \in DOMAIN conversations : messages = << >> /\ RestSend(1, c, "text", "hi", FALSE)
    \/ \E c \in DOMAIN conversations, r \in MessageIds : RestSendReply(1, c, "hi", r)
    \/ \E k \in {1}, c \in DOMAIN conversations : Connect(k, 1, c)
    \/ \E k \in {1} : Disconnect(k)
    \/ \E k \in {1}, r \in MessageIds : WsChatReply(k, "hi", r)

SpecThreads == Init /\ [][NextThreads]_vars
SpecCache == Init /\ [][NextCache]_vars

\* ------------------------------------------------------------------ claims

\* The direct rows between a and b, in either order.
PairRows(convs, a, b) ==
    {c \in DOMAIN convs : convs[c].ctype = "direct" /\ {convs[c].p1, convs[c].p2} = {a, b}}

\* C3: for users A # B, get_or_create_direct_conversation(A, B) always returns
\* the one direct conversation of the pair, whichever order the arguments come
\* in: a call made when the pair has a conversation returns that one and
\* creates nothing, and every direct row stores the lower user id first.
C3_SameConversation ==
    /\ [](\A c \in DOMAIN conversations :
            conversations[c].ctype = "direct" => conversations[c].p1 < conversations[c].p2)
    /\ [][(last'.op = "get_or_create_direct" /\ last'.user # last'.other) =>
            LET before == PairRows(conversations, last'.user, last'.other)
            IN /\ last'.result = "ok"
               /\ PairRows(conversations', last'.user, last'.other) = {last'.conv}
               /\ before # {} => /\ last'.conv \in before
                                 /\ ~last'.created
                                 /\ conversations' = conversations]_vars

\* C3 witness: a call with the higher id first has returned the conversation
\* that an earlier call created.
C3_Witness ==
    /\ last.op = "get_or_create_direct"
    /\ last.user > last.other
    /\ last.result = "ok"
    /\ ~last.created
    /\ last.conv \in PairRows(conversations, last.other, last.user)

\* C4: in every reachable state, concurrent calls included, at most one direct
\* conversation exists per unordered pair of users.
C4_AtMostOneDirect ==
    \A c1 \in DOMAIN conversations, c2 \in DOMAIN conversations :
        (/\ conversations[c1].ctype = "direct"
         /\ conversations[c2].ctype = "direct"
         /\ {conversations[c1].p1, conversations[c1].p2}
              = {conversations[c2].p1, conversations[c2].p2}) => c1 = c2

\* C5: get_or_create_direct_conversation(A, A) always raises the validation
\* error and persists no conversation, and the REST entry point answers 400
\* and persists nothing, whatever conversations exist.
C5_SelfConversationFails ==
    [][/\ (last'.op = "get_or_create_direct" /\ last'.user = last'.other) =>
            /\ last'.result = "ValidationError"
            /\ ~last'.created
            /\ conversations' = conversations
       /\ (last'.op = "rest_direct" /\ last'.user = last'.other) =>
            /\ last'.result = "400"
            /\ conversations' = conversations
            /\ messages' = messages]_vars

\* C5 witness: the call was made for a user who has a conversation already.
C5_Witness ==
    /\ last.op = "get_or_create_direct"
    /\ last.user = last.other
    /\ last.result = "ValidationError"
    /\ \E c \in DOMAIN conversations :
         last.user \in {conversations[c].p1, conversations[c].p2}

\* The position of a status on Sent -> Delivered -> Read.
StatusRank(st) == IF st = "sent" THEN 0 ELSE IF st = "delivered" THEN 1 ELSE 2

\* C1: over any sequence of mark_as_delivered and mark_as_read calls a
\* message's status only moves forward along Sent -> Delivered -> Read:
\* mark_as_delivered on Sent gives Delivered, mark_as_read on Sent or Delivered
\* gives Read, and mark_as_delivered after Read leaves it Read.
C1_StatusForward ==
    [][\A m \in DOMAIN messages :
         /\ StatusRank(messages'[m].status) >= StatusRank(messages[m].status)
         /\ (last'.op = "mark_as_delivered" /\ last'.msg = m) =>
              /\ messages[m].status = "sent" => messages'[m].status = "delivered"
              /\ messages[m].status = "read" => messages'[m].status = "read"
         /\ (last'.op = "mark_as_read" /\ last'.msg = m) =>
              messages'[m].status = "read"]_vars

\* user is an active participant of conversation c.
ActiveIn(c, user) == c \in DOMAIN conversations /\ is_participant(c, user)

\* The conversation that a call is aimed at: the one of the message it names,
\* or else the one it names.
TargetConv(call) ==
    IF call.msg \in DOMAIN messages THEN messages[call.msg].conv ELSE call.conv

\* C2: a user who is not an active participant of a conversation (never a
\* member, or removed) cannot create a message in it, react to one of its
\* messages or mark one of them read, through any REST or websocket entry
\* point: the attempt is rejected and no message, reaction or status change is
\* persisted.
C2_NonParticipantRejected ==
    [][/\ (/\ last'.op \in {"rest_send", "create_message", "ws_chat_message",
                            "rest_react", "ws_reaction", "rest_mark_read", "ws_mark_read"}
           /\ ~ActiveIn(TargetConv(last'), last'.user)) =>
            /\ messages' = messages
            /\ reactions' = reactions
            /\ last'.result \in {"400", "403", "404", "500", "ValidationError", "ignored"}
       /\ last'.op = "bulk_mark_read" =>
            \A m \in last'.ids :
                ~ActiveIn(messages[m].conv, last'.user) => messages'[m] = messages[m]]_vars

\* C6: there is at most one reaction per (message, user, emoji): a react with
\* a triple that has a reaction is rejected and leaves the reactions as they
\* are, and a react by a participant with a triple that has none (another
\* emoji of the same user on the same message, or a triple removed before)
\* adds exactly that reaction.
C6_OneReactionPerTriple ==
    /\ [](\A i \in DOMAIN reactions, j \in DOMAIN reactions :
            reactions[i] = reactions[j] => i = j)
    /\ [][last'.op \in {"rest_react", "ws_reaction"} =>
            LET m == last'.msg
                u == last'.user
                e == last'.emoji
            IN /\ ReactionRows(reactions, m, u, e) # {} =>
                    /\ reactions' = reactions
                    /\ last'.result \in {"400", "404", "ignored"}
               /\ (/\ ReactionRows(reactions, m, u, e) = {}
                   /\ ActiveIn(messages[m].conv, u)
                   /\ last'.op = "rest_react" => last'.conv = messages[m].conv) =>
                    /\ reactions' = Append(reactions,
                                           [message |-> m, user |-> u, emoji |-> e])
                    /\ last'.result \in {"201", "message_reaction"}]_vars

\* C6 witness: a user who reacted to a message with two emojis has had a
\* second react with one of them rejected.
C6_Witness ==
    /\ last.op \in {"rest_react", "ws_reaction"}
    /\ last.result \in {"400", "ignored"}
    /\ ReactionRows(reactions, last.msg, last.user, last.emoji) # {}
    /\ \E i \in DOMAIN reactions :
         /\ reactions[i].message = last.msg
         /\ reactions[i].user = last.user
         /\ reactions[i].emoji # last.emoji

\* The number of check_limit calls recorded for a bucket.
CallsIn(key) == IF key \in DOMAIN calls THEN calls[key] ELSE 0

\* The last call was allowed.
LastAllowed(call) == call.result \in {"allowed", "not_limited"}

\* C7: with a limit of N per minute, of the calls that one user makes one
\* after the other for an action within one minute the first N are allowed and
\* every later one is rejected; the first call of the next minute is allowed;
\* the buckets of other users and other action types are left as they are.
C7_FirstNAllowed ==
    [][(calls' # calls /\ last'.action \in DOMAIN LIMITS) =>
         LET key == <<last'.user, last'.action, WindowStart(now)>>
         IN /\ LastAllowed(last') <=> CallsIn(key) < LIMITS[last'.action]
            /\ \A k \in DOMAIN trackers : k # key => /\ k \in DOMAIN trackers'
                                                     /\ trackers'[k] = trackers[k]
            /\ DOMAIN trackers' \subseteq DOMAIN trackers \cup {key}]_vars

\* C7 witness: a user was rejected in the first minute, the limit used up, and
\* has been allowed again in the next minute.
C7_Witness ==
    \E u \in Users, a \in DOMAIN LIMITS :
        /\ <<u, a, 0>> \in DOMAIN trackers
        /\ trackers[<<u, a, 0>>] = LIMITS[a]
        /\ calls[<<u, a, 0>>] = LIMITS[a] + 1
        /\ last.op = "check_limit" /\ last.user = u /\ last.action = a
        /\ last.result = "allowed"
        /\ <<u, a, 60>> \in DOMAIN trackers

C9_UnknownActionAllowed ==
    /\ [](\A key \in DOMAIN trackers : key[2] \in DOMAIN LIMITS)
    /\ [][(calls' # calls /\ last'.action \notin DOMAIN LIMITS) =>
            /\ LastAllowed(last')
            /\ trackers' = trackers]_vars

\* C9 witness: the third call in a minute for an action type without limit has
\* been allowed.
C9_Witness ==
    /\ last.op = "check_limit"
    /\ last.action \notin DOMAIN LIMITS
    /\ last.result = "allowed"
    /\ \E key \in DOMAIN calls :
         key[1] = last.user /\ key[2] = last.action /\ calls[key] >= 3

\* An HTTP answer of the 2xx class.
Is2xx(r) == r >= 200 /\ r < 300

\* An HTTP answer of another class.
IsNon2xx(r) == r # 0 /\ ~Is2xx(r)

NonDecreasing(seq) ==
    \A i \in 1..(Len(seq) - 1) : seq[i] <= seq[i + 1]

\* C10: for an endpoint that answers non-2xx three times and then 2xx, the
\* delivery job ends with a delivery record that is marked delivered, no
\* record's attempt count exceeds the maximum, and the delays between the
\* retries do not decrease.
C10_DeliveredAfterThreeFailures ==
    (/\ Len(job.responses) = 4
     /\ \A i \in 1..3 : IsNon2xx(job.responses[i])
     /\ Is2xx(job.responses[4])) =>
        /\ job.state \in {"succeeded", "failed"} =>
             \E d \in DOMAIN deliveries : deliveries[d].is_delivered
        /\ \A d \in DOMAIN deliveries : deliveries[d].delivery_attempts <= max_retries
        /\ NonDecreasing(job.countdowns)

\* C11: one enqueued webhook job (deliver_webhook or send_webhook) makes at
\* most 3 HTTP attempts, and after the last of them the job is not rescheduled:
\* it has ended in success or in a terminal failure.
C11_AtMostThreeAttempts ==
    /\ Len(job.responses) <= 3
    /\ Len(job.responses) = 3 => job.state \in {"succeeded", "failed"}

\* The write entry points that create a message in a named conversation.
CreateOps == {"rest_send", "create_message", "ws_chat_message"}

\* C12: a text message create with empty content is rejected on every entry
\* point (REST send, create_message, websocket chat_message), with a validation
\* error when the conversation exists, and it leaves no message row, no change
\* of lastMessageAt, no fan-out event and no enqueued pipeline job.
C12_EmptyTextRejected ==
    [][(/\ last'.op \in CreateOps
        /\ last' # last
        /\ last'.mtype = "text"
        /\ last'.content = "") =>
          /\ last'.result \in {"400", "404", "ValidationError"}
          /\ last'.conv \in DOMAIN conversations =>
               last'.result \in {"400", "ValidationError"}
          /\ messages' = messages
          /\ last_message_at' = last_message_at
          /\ events' = {}
          /\ queue' = queue]_vars

C12_Witness ==
    /\ last.op = "ws_chat_message"
    /\ last.mtype = "text"
    /\ last.content = ""
    /\ last.result = "ValidationError"
    /\ Len(messages) > 0
    /\ queue # {}

\* C13: every accepted message create, on every write entry point (REST send,
\* create_message, direct-conversation create with a message, websocket
\* chat_message), sends a chat_message event to the conversation's group and
\* enqueues a moderation job and an encryption job for the message.
C13_CreateFansOutAndEnqueues ==
    [][(/\ last'.op \in CreateOps \cup {"rest_direct"}
        /\ last'.msg # 0
        /\ messages' # messages) =>
          /\ Event("chat_message", last'.conv, last'.msg, last'.user) \in events'
          /\ \E j \in queue' : j.task = "moderate_content" /\ j.msg = last'.msg
          /\ \E j \in queue' : j.task = "process_message_encryption"
                               /\ j.msg = last'.msg]_vars

\* The messages of sender user that were created in the minute bucket that
\* starts at w.
CreatedIn(user, w) ==
    {m \in DOMAIN messages : /\ messages[m].sender = user
                             /\ WindowStart(messages[m].created_at) = w}

\* C14: message creates are gated by the rate limiter: of the creates of one
\* user in one minute bucket, on any entry point, no more than the per-minute
\* limit for 'message' are accepted.
C14_CreatesWithinLimit ==
    \A u \in Users, m \in DOMAIN messages :
        Cardinality(CreatedIn(u, WindowStart(messages[m].created_at)))
            <= LIMITS.message

\* C15: after an accepted mutation of a conversation (a new message through
\* any entry point, a participant added or removed), no cache entry written
\* before it is served: the message page of the conversation and the
\* conversation list of a participant show the data as it is when they are read.
C15_ListsServeCurrentData ==
    [][/\ last'.op = "list_conversations" =>
            last'.served = ConversationsPage(last'.user)
       /\ last'.op = "list_messages" =>
            last'.served = MessagesPage(last'.user, last'.conv)]_vars

\* The users with an active participant row in conversation c.
ActiveUsers(c) ==
    {participants[i].user : i \in {j \in DOMAIN participants :
                               participants[j].conv = c /\ participants[j].is_active}}

\* C16: after a group is created and participants are added and removed, the
\* participant count of the group is the number of distinct users with an
\* active participant row (1 + |P| right after the creation with the users P),
\* the creator's role is admin and every other member's role is member.
C16_CountIsActiveRoster ==
    [][\A c \in DOMAIN conversations' :
          conversations'[c].ctype = "group" =>
             /\ get_participant_count(c)' = Cardinality(ActiveUsers(c)')
             /\ (last'.op = "rest_group" /\ last'.result = "201" /\ last'.conv = c
                 /\ c \notin DOMAIN conversations) =>
                   get_participant_count(c)' = 1 + Cardinality(last'.ids)
             /\ \A i \in DOMAIN participants' :
                   participants'[i].conv = c =>
                      participants'[i].role =
                         IF participants'[i].user = conversations'[c].created_by
                         THEN "admin" ELSE "member"]_vars

C16_Witness ==
    /\ last.op = "rest_add_participant"
    /\ last.result = "200"
    /\ get_participant_count(last.conv) = 2
    /\ conversations[last.conv].created_by # 1
    /\ Cardinality({i \in DOMAIN participants : participants[i].conv = last.conv}) = 3

\* C17: the active participants of a group never exceed its maxParticipants,
\* whether the roster was built by createGroup, by addParticipant calls one
\* after the other or by addParticipant calls that run at the same time.
C17_RosterWithinMax ==
    \A c \in DOMAIN conversations :
        conversations[c].ctype = "group" => get_participant_count(c) <= capacity[c]

\* The severities that an issue can have, and no issue.
Severities == {SEVERITY_SCORES[t] : t \in DOMAIN SEVERITY_SCORES} \cup {0}

\* The text with each word that a pattern matches replaced.
Censored(content) ==
    [i \in DOMAIN content |->
        IF Lower(content[i]) \in UNION {INAPPROPRIATE_PATTERNS[j].words :
                                          j \in DOMAIN INAPPROPRIATE_PATTERNS}
        THEN "***" ELSE content[i]]

\* C18: moderation maps the greatest severity to the action: at 0.9 and above
\* block with censoring, at 0.7 and above flag with censoring, at 0.5 and above
\* flag without censoring, below that approved. A text with a profanity gets a
\* severity of at least 0.7 and flag or block; a text that no pattern matches
\* is approved with severity 0.
C18_SeverityDecidesAction ==
    /\ \A s \in Severities :
          /\ DetermineAction(s).action_required =
                IF s >= 90 THEN "block" ELSE IF s >= 50 THEN "flag" ELSE "none"
          /\ DetermineAction(s).censor = (s >= 70)
    /\ moderated.op = "moderate_text" =>
          LET r == moderated.result
              clean == \A i \in DOMAIN moderated.content :
                          Censored(moderated.content)[i] = moderated.content[i]
          IN /\ r.confidence_score \in Severities
             /\ r.action_required =
                   IF r.confidence_score >= 90 THEN "block"
                   ELSE IF r.confidence_score >= 50 THEN "flag" ELSE "none"
             /\ r.filtered_content = IF r.confidence_score >= 70
                                     THEN Censored(moderated.content)
                                     ELSE moderated.content
             /\ (\E i \in DOMAIN moderated.content :
                    Lower(moderated.content[i]) = "damn") =>
                   /\ r.confidence_score >= 70
                   /\ r.action_required \in {"flag", "block"}
             /\ clean => /\ r.action_required = "none"
                         /\ r.is_appropriate
                         /\ r.confidence_score = 0

C18_Witness ==
    /\ moderated.op = "moderate_text"
    /\ moderated.content = <<"DAMN", "hello">>
    /\ moderated.result.action_required = "flag"
    /\ moderated.result.filtered_content = <<"***", "hello">>

\* C19: whenever the moderation job produces flag or block for a message, a
\* moderation log entry is persisted and a content_flagged webhook is enqueued.
C19_FlagIsLoggedAndNotified ==
    [][(/\ \E j \in queue \ queue' : j.task = "moderate_content"
        /\ moderated'.result.action_required \in {"flag", "block"}) =>
          /\ Len(modlog') = Len(modlog) + 1
          /\ Job("send_webhook", moderated'.msg, "content_flagged") \in queue']_vars

\* C20: marking a message delivered that is already delivered or read, and
\* marking a message read (one message or in bulk) that is already read,
\* changes nothing: its status, deliveredAt and readAt stay as they are, and
\* no error is raised.
C20_RepeatedMarkIsNoOp ==
    [][/\ (/\ last'.op = "mark_as_delivered"
           /\ messages[last'.msg].status \in {"delivered", "read"}) =>
             /\ messages'[last'.msg] = messages[last'.msg]
             /\ last'.result = "ok"
       /\ (/\ last'.op = "mark_as_read"
           /\ messages[last'.msg].status = "read") =>
             /\ messages'[last'.msg] = messages[last'.msg]
             /\ last'.result = "ok"
       /\ (/\ last'.op = "rest_mark_read"
           /\ messages[last'.msg].status = "read") =>
             /\ messages'[last'.msg] = messages[last'.msg]
             /\ last'.result # "500"
       /\ last'.op = "bulk_mark_read" =>
             /\ \A m \in last'.ids :
                   messages[m].status = "read" => messages'[m] = messages[m]
             /\ last'.result = "200"]_vars
C22_DeletedContentHidden ==
    [][/\ (last'.op = "rest_delete" /\ last'.result = "204") =>
            /\ messages[last'.msg].sender = last'.user
            /\ messages' = [messages EXCEPT ![last'.msg] =
                              [messages[last'.msg] EXCEPT !.is_deleted = TRUE,
                                                          !.deleted_at = <<now>>]]
       /\ (last'.op = "list_messages") =>
            \A m \in last'.served.msgs : ~messages'[m].is_deleted
       /\ \A i \in DOMAIN last'.body :
            /\ last'.body[i].is_deleted => last'.body[i].content = ""
            /\ \A j \in DOMAIN last'.body[i].reply_to_preview :
                 LET preview == last'.body[i].reply_to_preview[j]
                 IN messages'[preview.id].is_deleted =>
                        preview.content_preview # messages'[preview.id].content]_vars

\* C23: the conversations listed for a user are exactly the direct
\* conversations the user is participant1 or participant2 of and the groups in
\* which the user has an active participant row; a group the user was removed
\* from is not listed.
C23_ListIsActiveMemberships ==
    \A u \in Users :
        get_user_conversations(u) =
            {c \in DOMAIN conversations :
                IF conversations[c].ctype = "direct"
                THEN u \in {conversations[c].p1, conversations[c].p2}
                ELSE u \in ActiveUsers(c)}

C25_AddAgainReusesTheRow ==
    [][(/\ last'.op = "rest_add_participant"
        /\ last'.result # "404"
        /\ conversations[last'.conv].ctype = "group"
        /\ get_participant_count(last'.conv) < capacity[last'.conv]
        /\ ParticipantRows(participants, last'.conv, last'.other) # {}) =>
         /\ last'.result = "200"
         /\ \E i \in ParticipantRows(participants, last'.conv, last'.other) :
                /\ participants' = [participants EXCEPT ![i].is_active = TRUE]
                /\ participants[i].is_active => participants' = participants]_vars

\* A user who had left the group was added again: one row, active.
C25_Witness ==
    /\ last.op = "rest_add_participant"
    /\ last.result = "200"
    /\ capacity[last.conv] = TestMax
    /\ \E i \in ParticipantRows(participants, last.conv, last.other) :
           participants[i].is_active /\ participants[i].left_at # << >>
    /\ Cardinality(ParticipantRows(participants, last.conv, last.other)) = 1

\* C26: the encryption job is idempotent: a run of process_message_encryption
\* on a message that the run before it handled leaves the message table as it
\* is and reports already_encrypted.
C26_SecondRunIsNoOp ==
    [][(/\ last'.op = "process_message_encryption"
        /\ last'.msg \in DOMAIN messages
        /\ \E i \in DOMAIN task_results : task_results[i].msg = last'.msg) =>
         /\ messages' = messages
         /\ last'.result = "already_encrypted"]_vars

\* C27: last_message_at of a conversation never decreases, whatever the
\* interleaving of the writers: no write stores a time earlier than the one
\* that is stored.
C27_LastMessageAtNeverDecreases ==
    [][\A c \in ConvIds :
         last_message_at[c] # << >> =>
            /\ last_message_at'[c] # << >>
            /\ last_message_at'[c][1] >= last_message_at[c][1]]_vars

\* C28: creating a group is all or nothing: a group request that fails (an
\* empty title, a participant list that holds the creator or a user twice)
\* leaves no conversation row and no participant row behind.
C28_FailedGroupLeavesNothing ==
    [][(last'.op = "rest_group" /\ last'.result # "201") =>
         /\ conversations' = conversations
         /\ participants' = participants]_vars

\* C29: whatever the interleaving of the delivery marking at connect, the read
\* marking and the saves of the background jobs, each working on the copy of
\* the message it loaded, the stored status of a message never moves backward
\* and a set is_deleted or is_edited is never cleared.
C29_NoWriteGoesBack ==
    [][\A m \in DOMAIN messages :
         /\ StatusRank(messages'[m].status) >= StatusRank(messages[m].status)
         /\ messages[m].is_deleted => messages'[m].is_deleted
         /\ messages[m].is_edited => messages'[m].is_edited]_vars

\* C30: when the connect of a participant is through, every message of the
\* conversation from another user that was Sent when it began is Delivered
\* with delivered_at set, also when its sender has left the conversation since;
\* the messages of the connecting user are as they were, and the connection
\* is in the group of the conversation.
C30_ConnectDeliversAll ==
    [][(last'.op = "ws_connect" /\ last'.result # "closed") =>
         /\ \A m \in DOMAIN messages :
              IF messages[m].conv = last'.conv /\ messages[m].sender # last'.user
                 /\ messages[m].status = "sent"
              THEN /\ messages'[m].status = "delivered"
                   /\ messages'[m].delivered_at # << >>
              ELSE messages'[m] = messages[m]
         /\ \E k \in ConnIds :
              /\ connections'[k].user = last'.user
              /\ connections'[k].conv = last'.conv
              /\ connections'[k].in_group]_vars

\* C31: a connection attempt of an authenticated user who is not a participant
\* of the conversation is closed without being added to the group, and no
\* event is sent to the group for it, neither at the connect nor at the
\* disconnect that follows; an attempt without authentication changes nothing.
C31_RefusedConnectionIsSilent ==
    [][/\ (last'.op = "ws_connect" /\ last'.result = "closed") =>
            /\ events' = {}
            /\ \A k \in ConnIds : connections'[k].state # "closed" =>
                   (connections'[k] = connections[k] \/ ~connections'[k].in_group)
       /\ (last'.op = "ws_connect" /\ last'.user = 0) =>
            /\ connections' = connections
            /\ online' = online
       /\ \A k \in ConnIds :
            (connections[k].state = "refused" /\ connections'[k].state = "closed") =>
                events' = {}]_vars

\* C32: an event sent to the group of a conversation after a user was removed
\* from the conversation does not reach the connections that the user still
\* has open: whoever receives an event of a group is a participant of the
\* conversation when it is sent.
C32_RemovedUserGetsNoEvent ==
    \A k \in ConnIds, e \in events :
        Receives(k, e) => is_participant(e.group, connections[k].user)

\* The calls that are frames received on a connection
FrameOps == {"ws_chat_message", "ws_typing_start", "ws_typing_stop", "ws_mark_read",
             "ws_reaction"}

\* C33: a frame of any type (chat_message, typing_start, typing_stop,
\* mark_read, reaction) received on a connection whose user is no longer an
\* active participant of the conversation writes no row and sends no event to
\* the group.
C33_RemovedUserFramesAreDropped ==
    [][(/\ last'.op \in FrameOps
        /\ \A k \in ConnIds :
              (connections[k].state = "open" /\ connections[k].user = last'.user) =>
                  ~is_participant(connections[k].conv, last'.user))
       => (/\ dbVars' = dbVars
           /\ typing' = typing
           /\ events' = {})]_vars

\* C34: every stored message that replies to another one replies to a message
\* of its own conversation, whether it came in through REST send or through a
\* websocket chat_message frame.
C34_ReplyInSameConversation ==
    \A m \in DOMAIN messages :
        messages[m].reply_to # 0 =>
            messages[messages[m].reply_to].conv = messages[m].conv

\* C35: an attempt of deliver_webhook counts as a success for every 2xx answer
\* (its record is delivered, total_sent is incremented, total_failed is not
\* and the job is not retried) and as a failure for every other status.
C35_Every2xxIsSuccess ==
    job.task = "deliver_webhook" =>
        /\ \A i \in DOMAIN deliveries :
              /\ Is2xx(job.responses[i]) <=> deliveries[i].is_delivered
              /\ Is2xx(job.responses[i]) =>
                    (i = Len(job.responses) /\ job.state = "succeeded")
        /\ endpoint.total_sent =
              Cardinality({i \in DOMAIN job.responses : Is2xx(job.responses[i])})
        /\ endpoint.total_failed =
              Cardinality({i \in DOMAIN job.responses : IsNon2xx(job.responses[i])})

\* C36: a delivery that failed until its retries were used up, by answers
\* other than 2xx or by requests that got no answer, has incremented the
\* endpoint's failure counter and has left a record that is not delivered.
C36_ExhaustedDeliveryIsCounted ==
    (job.task = "deliver_webhook" /\ job.state = "failed") =>
        /\ endpoint.total_failed > 0
        /\ \E d \in DOMAIN deliveries : ~deliveries[d].is_delivered

\* C37: however the check_limit calls that processes make at the same time
\* for one user, action type and minute interleave, at most as many of them
\* are allowed as the limit of the action type.
C37_ConcurrentChecksWithinLimit ==
    \A key \in DOMAIN granted : granted[key] <= LIMITS[key[2]]

\* C38: last_message_at of a conversation changes only when a new message is
\* accepted: mark_as_delivered, mark_as_read, an edit and a soft deletion of a
\* message leave it as it is.
C38_OnlyNewMessagesMoveLastMessageAt ==
    [][last_message_at' # last_message_at => Len(messages') > Len(messages)]_vars

\* C39: a user is online whenever one of the user's accepted connections has
\* not been disconnected, and the disconnection of one of several connections
\* deletes no typing row set by a connection that stays: among connections 1
\* and 2, of which the first alone sends typing frames, the disconnection of
\* the second leaves the typing row of the first.
C39_OnlineWhileConnected ==
    /\ [](\A k \in ConnIds :
            connections[k].state = "open" => connections[k].user \in online)
    /\ [][(/\ connections[2].state = "open"
            /\ connections'[2].state = "closed"
            /\ connections[1].state = "open"
            /\ <<connections[1].conv, connections[1].user>> \in typing)
           => <<connections[1].conv, connections[1].user>> \in typing']_vars

\* C40: every read_receipt and message_reaction event sent to the group of a
\* conversation names a message of that conversation.
C40_EventsNameOwnMessages ==
    \A e \in events :
        e.type \in {"read_receipt", "message_reaction"} =>
            messages[e.msg].conv = e.group

====
